---- MODULE Spec2Model ----
(***************************************************************************)
(* Model of the typed binary decoding engine of bin_to_c: dumper.py (the   *)
(* Dumper class) over the schema values of var_def.py.                     *)
(*                                                                         *)
(* Representation.                                                         *)
(*  - A Python str is a sequence of code points (chr(v) is the character   *)
(*    whose code point is v); Txt turns a sequence of one-character        *)
(*    strings into that form.                                              *)
(*  - A Python int that may need 33 bits (a value read by _read_32, or     *)
(*    1 << 32) is carried as a pair <<hi, lo>> that stands for             *)
(*    hi * 2^16 + lo with 0 <= lo < 2^16, because the model checker's      *)
(*    integers are 32 bits wide.  Every value read from the image is       *)
(*    carried in this form.                                                *)
(*  - None is a value that is no text and no mapping.                      *)
(*  - A schema (VarDef) is a record whose field kind names its class.      *)
(***************************************************************************)
EXTENDS Integers, Sequences, FiniteSets, TLC

VARIABLES
    rom,         \* Dumper.rom: the bytes of the image
    pos,         \* the cursor of Dumper.rom (rom.tell())
    syms,        \* Dumper.syms: the normalized symbol table
    found_ptrs,  \* Dumper.found_ptrs: address -> set of descriptions
    call,        \* the last dump call: its arguments, what it returned or raised
    prev_ptrs,   \* found_ptrs as it was when the last dump call started
    syms_arg,    \* the syms argument the Dumper was constructed with
    made,        \* the last schema construction: its arguments, what it raised
    int_read     \* the caller's last read_int call since the last dump call

vars == <<rom, pos, syms, found_ptrs, call, prev_ptrs, syms_arg, made, int_read>>

(***************************************************************************)
(* Text: sequences of code points.                                         *)
(***************************************************************************)
Printable ==
    <<" ", "!", "\"", "#", "$", "%", "&", "'", "(", ")", "*", "+", ",", "-", ".", "/",
      "0", "1", "2", "3", "4", "5", "6", "7", "8", "9", ":", ";", "<", "=", ">", "?",
      "@", "A", "B", "C", "D", "E", "F", "G", "H", "I", "J", "K", "L", "M", "N", "O",
      "P", "Q", "R", "S", "T", "U", "V", "W", "X", "Y", "Z", "[", "\\", "]", "^", "_",
      "<grave accent>", "a", "b", "c", "d", "e", "f", "g", "h", "i", "j", "k", "l", "m", "n", "o",
      "p", "q", "r", "s", "t", "u", "v", "w", "x", "y", "z", "{", "|", "}", "~">>

\* ord(c) for a printable ASCII character c
Ord(c) == 31 + (CHOOSE i \in 1..Len(Printable) : Printable[i] = c)

\* the str spelled by the characters cs
RECURSIVE Txt(_)
Txt(cs) == IF Len(cs) = 0 THEN <<>> ELSE <<Ord(cs[1])>> \o Txt(Tail(cs))

NL == <<10>>

\* the literal texts of dumper.py
MINUS == Txt(<<"-">>)

ZERO_X == Txt(<<"0", "x">>)

FALSE_TEXT == Txt(<<"F", "A", "L", "S", "E">>)

TRUE_TEXT == Txt(<<"T", "R", "U", "E">>)

NULL_TEXT == Txt(<<"N", "U", "L", "L">>)

VOID_PTR == Txt(<<"v", "o", "i", "d", "*">>)

LPAREN == Txt(<<"(">>)

RPAREN_0X == Txt(<<")", "0", "x">>)

COMMA == Txt(<<",">>)

QUOTE == Txt(<<"\"">>)

RBRACE == Txt(<<"}">>)

LBRACE == Txt(<<"{">>)

DOT == Txt(<<".">>)

EQUALS == Txt(<<" ", "=", " ">>)

LBRACKET == Txt(<<"[">>)

RBRACKET_EQUALS == Txt(<<"]", " ", "=", " ">>)

SPACE == Txt(<<" ">>)

None == (-1 :> -1)

\* sep.join(parts)
RECURSIVE Join(_, _)
Join(sep, parts) ==
    IF Len(parts) = 0 THEN <<>>
    ELSE IF Len(parts) = 1 THEN parts[1]
    ELSE parts[1] \o sep \o Join(sep, Tail(parts))

(***************************************************************************)
(* Python integers as <<hi, lo>> pairs.                                    *)
(***************************************************************************)
Limb == 2^16

\* the pair of a number the checker can hold
PyInt(n) == <<n \div Limb, n % Limb>>

\* the number of a pair, where it fits
Num(a) == a[1] * Limb + a[2]

Fits(a) == a[1] >= -(Limb \div 2) /\ a[1] < Limb \div 2

PyLt(a, b) == a[1] < b[1] \/ (a[1] = b[1] /\ a[2] < b[2])

PyGe(a, b) == ~PyLt(a, b)

PyAdd(a, b) ==
    LET lo == a[2] + b[2]
    IN  <<a[1] + b[1] + (lo \div Limb), lo % Limb>>

PyNeg(a) == IF a[2] = 0 THEN <<-a[1], 0>> ELSE <<-a[1] - 1, Limb - a[2]>>

\* 1 << k, for k up to 32
Shl1(k) == IF k < 16 THEN <<0, 2^k>> ELSE <<2^(k - 16), 0>>

\* a // d and a % d for a >= 0 and a small d > 0
PyDiv(a, d) ==
    LET t == (a[1] % d) * Limb + a[2]
    IN  <<a[1] \div d, t \div d>>

PyMod(a, d) == ((a[1] % d) * Limb + a[2]) % d

DigitsLower == Txt(<<"0", "1", "2", "3", "4", "5", "6", "7", "8", "9",
                     "a", "b", "c", "d", "e", "f">>)

DigitsUpper == Txt(<<"0", "1", "2", "3", "4", "5", "6", "7", "8", "9",
                     "A", "B", "C", "D", "E", "F">>)

\* the numeral of a >= 0 in base d
RECURSIVE Numeral(_, _, _)
Numeral(a, d, digits) ==
    IF a[1] = 0 /\ a[2] < d THEN <<digits[a[2] + 1]>>
    ELSE Numeral(PyDiv(a, d), d, digits) \o <<digits[PyMod(a, d) + 1]>>

\* format(val, spec) for the integer presentation types the engine uses
Format(val, d, digits) ==
    IF val[1] < 0 THEN MINUS \o Numeral(PyNeg(val), d, digits)
    ELSE Numeral(val, d, digits)

\* f"{val}"
FmtDec(val) == Format(val, 10, DigitsLower)

\* f"{val:X}"
FmtHexUpper(val) == Format(val, 16, DigitsUpper)

\* f"{val:x}"
FmtHexLower(val) == Format(val, 16, DigitsLower)

(***************************************************************************)
(* var_def.py: the schema values.                                          *)
(***************************************************************************)
Integer(type, base) == [kind |-> "Integer", type |-> type, base |-> base]

\* Integer.size()
Integer_size(var_def) ==
    CASE var_def.type \in {"U8", "S8"} -> 1
      [] var_def.type \in {"U16", "S16"} -> 2
      [] var_def.type \in {"U32", "S32"} -> 4

\* Integer.signed()
Integer_signed(var_def) ==
    CASE var_def.type \in {"U8", "U16", "U32"} -> FALSE
      [] var_def.type \in {"S8", "S16", "S32"} -> TRUE

Boolean(size) == [kind |-> "Boolean", size |-> size]

EnumVal(size, enum_def) == [kind |-> "EnumVal", size |-> size, enum_def |-> enum_def]

Pointer(type_cast) == [kind |-> "Pointer", type_cast |-> type_cast]

\* fields: a sequence of <<name, schema>> pairs
Struct(fields) == [kind |-> "Struct", fields |-> fields]

\* items: one schema (is_list = FALSE) or a sequence of schemas (is_list = TRUE)
Array(count, items, is_list, format, enum_def, trailing_comma) ==
    [kind |-> "Array", count |-> count, items |-> items, is_list |-> is_list,
     format |-> format, enum_def |-> enum_def, trailing_comma |-> trailing_comma]

\* Boolean.__post_init__: the exception raised ("None" when it returned)
\* with every width up to 4 allowed
Boolean_post_init_upto4(self) ==
    IF self.size \notin {1, 2, 3, 4} THEN "ValueError" ELSE "None"

\* Boolean.__post_init__: the exception raised ("None" when it returned)
Boolean_post_init(self) ==
    IF self.size \notin {1, 2, 4} THEN "ValueError" ELSE "None"

\* EnumVal.__post_init__
EnumVal_post_init(self) ==
    IF self.size \notin {1, 2, 4} THEN "ValueError" ELSE "None"

\* isinstance(v, (Struct, Array))
IsStructOrArray(v) == v.kind \in {"Struct", "Array"}

\* Array.__post_init__ taking a list of 1-byte Integers for ASCII items too
Array_post_init_ascii_list(self) ==
    IF self.count <= 0 THEN "ValueError"
    ELSE IF self.is_list /\ Len(self.items) # self.count THEN "ValueError"
    ELSE IF self.enum_def # None /\ self.format \notin {"MULTI_LINE", "ENUM_INDEX"}
    THEN "ValueError"
    ELSE IF self.format = "SINGLE_LINE"
    THEN IF \/ (~self.is_list /\ IsStructOrArray(self.items))
            \/ (self.is_list /\ \E i \in 1..Len(self.items) : IsStructOrArray(self.items[i]))
         THEN "ValueError" ELSE "None"
    ELSE IF self.format = "ASCII"
    THEN IF \/ (~self.is_list /\ self.items.kind = "Integer" /\ Integer_size(self.items) = 1)
            \/ (self.is_list /\ \A i \in 1..Len(self.items) :
                    self.items[i].kind = "Integer" /\ Integer_size(self.items[i]) = 1)
         THEN "None" ELSE "ValueError"
    ELSE "None"

\* Array.__post_init__
Array_post_init(self) ==
    IF self.count <= 0 THEN "ValueError"
    ELSE IF self.is_list /\ Len(self.items) # self.count THEN "ValueError"
    ELSE IF self.enum_def # None /\ self.format \notin {"MULTI_LINE", "ENUM_INDEX"}
    THEN "ValueError"
    ELSE IF self.format = "SINGLE_LINE"
    THEN IF \/ (~self.is_list /\ IsStructOrArray(self.items))
            \/ (self.is_list /\ \E i \in 1..Len(self.items) : IsStructOrArray(self.items[i]))
         THEN "ValueError" ELSE "None"
    ELSE IF self.format = "ASCII"
    THEN IF ~(~self.is_list /\ self.items.kind = "Integer" /\ Integer_size(self.items) = 1)
         THEN "ValueError" ELSE "None"
    ELSE "None"

(***************************************************************************)
(* dumper.py: constants.                                                   *)
(***************************************************************************)
TAB_SIZE == 4

TAB == [i \in 1..TAB_SIZE |-> 32]

ROM_OFFSET == 134217728

ROM_SIZE == 8388608

CHAR_MAP ==
    (0 :> Txt(<<"\\", "0">>)) @@ (9 :> Txt(<<"\\", "t">>)) @@
    (10 :> Txt(<<"\\", "n">>)) @@ (13 :> Txt(<<"\\", "r">>))

\* depth * TAB
RECURSIVE Indent(_)
Indent(depth) == IF depth = 0 THEN <<>> ELSE TAB \o Indent(depth - 1)

(***************************************************************************)
(* The byte source: rom.read(n) at cursor p returns the bytes there are    *)
(* and moves the cursor past them; seeking past the end is allowed.        *)
(***************************************************************************)
rom_read(n, p) ==
    IF p >= Len(rom) THEN <<>>
    ELSE SubSeq(rom, p + 1, IF p + n <= Len(rom) THEN p + n ELSE Len(rom))

(***************************************************************************)
(* Dumper: the readers.  A reader returns [err, val, pos]: the exception   *)
(* raised ("None" when it returned), the value and the cursor it leaves.   *)
(***************************************************************************)
Read(val, p) == [err |-> "None", val |-> val, pos |-> p]

ReadRaise(e, p) == [err |-> e, val |-> None, pos |-> p]

\* _align leaving the cursor where it is
_align_none(size, p) == p

\* Dumper._align: the cursor after it
_align(size, p) ==
    LET r == p % size
    IN  IF r > 0 THEN p + (size - r) ELSE p

_read_8(signed, p) ==
    LET b == rom_read(1, p)
    IN  IF Len(b) < 1 THEN ReadRaise("IndexError", p + Len(b))
        ELSE LET val == b[1]
             IN  Read(PyInt(IF signed /\ val >= 128 THEN val - 256 ELSE val), p + 1)

_read_16(signed, p) ==
    LET p1 == _align(2, p)
        b == rom_read(2, p1)
    IN  IF Len(b) < 2 THEN ReadRaise("IndexError", p1 + Len(b))
        ELSE LET val == b[1] + b[2] * 256
             IN  Read(PyInt(IF signed /\ val >= 32768 THEN val - 65536 ELSE val), p1 + 2)

_read_32(signed, p) ==
    LET p1 == _align(4, p)
        b == rom_read(4, p1)
    IN  IF Len(b) < 4 THEN ReadRaise("IndexError", p1 + Len(b))
        ELSE LET val == <<b[3] + b[4] * 256, b[1] + b[2] * 256>>
             IN  Read(IF signed /\ PyGe(val, Shl1(31))
                      THEN PyAdd(val, PyNeg(Shl1(32)))
                      ELSE val, p1 + 4)

\* _read_ptr with the end of the window taken as a valid address
_read_ptr_inclusive(p) ==
    LET r == _read_32(FALSE, p)
    IN  IF r.err # "None" THEN r
        ELSE IF r.val # PyInt(0) /\
                (PyLt(r.val, PyInt(ROM_OFFSET)) \/ PyLt(PyInt(ROM_OFFSET + ROM_SIZE), r.val))
        THEN ReadRaise("ValueError", r.pos)
        ELSE r

_read_ptr(p) ==
    LET r == _read_32(FALSE, p)
    IN  IF r.err # "None" THEN r
        ELSE IF r.val # PyInt(0) /\
                (PyLt(r.val, PyInt(ROM_OFFSET)) \/ PyGe(r.val, PyInt(ROM_OFFSET + ROM_SIZE)))
        THEN ReadRaise("ValueError", r.pos)
        ELSE r

read_int(size, signed, p) ==
    CASE size = 1 -> _read_8(signed, p)
      [] size = 2 -> _read_16(signed, p)
      [] size = 4 -> _read_32(signed, p)
      [] OTHER -> ReadRaise("ValueError", p)

(***************************************************************************)
(* Dumper: the decoder.  The engine state st is [pos, found_ptrs]; a       *)
(* decoder returns [err, s, pos, found_ptrs]: the exception raised ("None" *)
(* when it returned), the text, and the state it leaves.                   *)
(***************************************************************************)
Return(s, p, ptrs) == [err |-> "None", s |-> s, pos |-> p, found_ptrs |-> ptrs]

Raise(e, p, ptrs) == [err |-> e, s |-> None, pos |-> p, found_ptrs |-> ptrs]

\* val in d, d[val] for a mapping d with integer keys
InDict(val, d) == Fits(val) /\ Num(val) \in DOMAIN d

\* _dump_integer without the reinterpretation of a negative value before hex rendering
_dump_integer_signed_hex(var_def, st) ==
    LET r == read_int(Integer_size(var_def), Integer_signed(var_def), st.pos)
    IN  IF r.err # "None" THEN Raise(r.err, r.pos, st.found_ptrs)
        ELSE IF var_def.base = "DEC" THEN Return(FmtDec(r.val), r.pos, st.found_ptrs)
        ELSE Return(ZERO_X \o FmtHexUpper(r.val), r.pos, st.found_ptrs)

\* the branch of Dumper._dump for an Integer
_dump_integer(var_def, st) ==
    LET size == Integer_size(var_def)
        r == read_int(size, Integer_signed(var_def), st.pos)
    IN  IF r.err # "None" THEN Raise(r.err, r.pos, st.found_ptrs)
        ELSE IF var_def.base = "DEC" THEN Return(FmtDec(r.val), r.pos, st.found_ptrs)
        ELSE IF var_def.base = "HEX" THEN
            LET val == IF r.val[1] < 0 THEN PyAdd(Shl1(size * 8), r.val) ELSE r.val
            IN  Return(ZERO_X \o FmtHexUpper(val), r.pos, st.found_ptrs)
        ELSE Raise("UnboundLocalError", r.pos, st.found_ptrs)

\* _dump_boolean taking every nonzero value for true
_dump_boolean_nonzero(var_def, st) ==
    LET r == read_int(var_def.size, FALSE, st.pos)
    IN  IF r.err # "None" THEN Raise(r.err, r.pos, st.found_ptrs)
        ELSE Return(IF r.val = PyInt(0) THEN FALSE_TEXT ELSE TRUE_TEXT, r.pos, st.found_ptrs)

\* the branch of Dumper._dump for a Boolean
_dump_boolean(var_def, st) ==
    LET r == read_int(var_def.size, FALSE, st.pos)
    IN  IF r.err # "None" THEN Raise(r.err, r.pos, st.found_ptrs)
        ELSE IF PyLt(PyInt(1), r.val) THEN Raise("ValueError", r.pos, st.found_ptrs)
        ELSE Return(IF r.val = PyInt(0) THEN FALSE_TEXT
                    ELSE TRUE_TEXT, r.pos, st.found_ptrs)

\* _dump_enumval raising for a value the enum-definition does not map
_dump_enumval_strict(var_def, st) ==
    LET r == read_int(var_def.size, FALSE, st.pos)
    IN  IF r.err # "None" THEN Raise(r.err, r.pos, st.found_ptrs)
        ELSE IF InDict(r.val, var_def.enum_def)
        THEN Return(var_def.enum_def[Num(r.val)], r.pos, st.found_ptrs)
        ELSE Raise("KeyError", r.pos, st.found_ptrs)

\* the branch of Dumper._dump for an EnumVal
_dump_enumval(var_def, st) ==
    LET r == read_int(var_def.size, FALSE, st.pos)
    IN  IF r.err # "None" THEN Raise(r.err, r.pos, st.found_ptrs)
        ELSE IF InDict(r.val, var_def.enum_def)
        THEN Return(var_def.enum_def[Num(r.val)], r.pos, st.found_ptrs)
        ELSE Return(FmtDec(r.val), r.pos, st.found_ptrs)

\* _dump_pointer recording a null pointer like any other
_dump_pointer_null_recorded(ptr, parents, st) ==
    LET r == _read_ptr(st.pos)
    IN  IF r.err # "None" THEN Raise(r.err, r.pos, st.found_ptrs)
        ELSE
            LET val == Num(r.val)
                tc == IF ptr.type_cast = None THEN VOID_PTR ELSE ptr.type_cast
                desc == Join(COMMA, Append(parents, tc))
                ptrs == IF val \in DOMAIN st.found_ptrs
                        THEN [st.found_ptrs EXCEPT ![val] = @ \cup {desc}]
                        ELSE st.found_ptrs @@ (val :> {desc})
            IN  Return(IF val = 0 THEN NULL_TEXT ELSE LPAREN \o tc \o RPAREN_0X \o FmtHexLower(r.val),
                       r.pos, ptrs)

\* _dump_pointer keeping only the latest description of an address
_dump_pointer_latest(ptr, parents, st) ==
    LET r == _read_ptr(st.pos)
    IN  IF r.err # "None" THEN Raise(r.err, r.pos, st.found_ptrs)
        ELSE IF r.val = PyInt(0) THEN Return(NULL_TEXT, r.pos, st.found_ptrs)
        ELSE
            LET val == Num(r.val)
                mapped == val \in DOMAIN syms
                tc == IF ptr.type_cast = None THEN VOID_PTR ELSE ptr.type_cast
                s == IF mapped THEN syms[val]
                     ELSE LPAREN \o tc \o RPAREN_0X \o FmtHexLower(r.val)
                desc == Join(COMMA, Append(parents, IF mapped THEN s ELSE tc))
                ptrs == IF val \in DOMAIN st.found_ptrs
                        THEN [st.found_ptrs EXCEPT ![val] = {desc}]
                        ELSE st.found_ptrs @@ (val :> {desc})
            IN  Return(s, r.pos, ptrs)

\* _dump_pointer describing a pointer without the field path
_dump_pointer_no_path(ptr, parents, st) ==
    LET r == _read_ptr(st.pos)
    IN  IF r.err # "None" THEN Raise(r.err, r.pos, st.found_ptrs)
        ELSE IF r.val = PyInt(0) THEN Return(NULL_TEXT, r.pos, st.found_ptrs)
        ELSE
            LET val == Num(r.val)
                mapped == val \in DOMAIN syms
                tc == IF ptr.type_cast = None THEN VOID_PTR ELSE ptr.type_cast
                s == IF mapped THEN syms[val]
                     ELSE LPAREN \o tc \o RPAREN_0X \o FmtHexLower(r.val)
                desc == IF mapped THEN s ELSE tc
                ptrs == IF val \in DOMAIN st.found_ptrs
                        THEN [st.found_ptrs EXCEPT ![val] = @ \cup {desc}]
                        ELSE st.found_ptrs @@ (val :> {desc})
            IN  Return(s, r.pos, ptrs)

_dump_pointer(ptr, parents, st) ==
    LET r == _read_ptr(st.pos)
    IN  IF r.err # "None" THEN Raise(r.err, r.pos, st.found_ptrs)
        ELSE IF r.val = PyInt(0) THEN Return(NULL_TEXT, r.pos, st.found_ptrs)
        ELSE
            LET val == Num(r.val)
                mapped == val \in DOMAIN syms
                tc == IF ptr.type_cast = None THEN VOID_PTR
                      ELSE ptr.type_cast
                s == IF mapped THEN syms[val]
                     ELSE LPAREN \o tc \o RPAREN_0X \o FmtHexLower(r.val)
                desc == Join(COMMA, Append(parents, IF mapped THEN s ELSE tc))
                ptrs == IF val \in DOMAIN st.found_ptrs
                        THEN [st.found_ptrs EXCEPT ![val] = @ \cup {desc}]
                        ELSE st.found_ptrs @@ (val :> {desc})
            IN  Return(s, r.pos, ptrs)

\* the bytes before the first zero byte, as a C string ends
RECURSIVE until_first_nul(_)
until_first_nul(vals) ==
    IF Len(vals) = 0 \/ vals[1] = 0 THEN <<>>
    ELSE <<vals[1]>> \o until_first_nul(Tail(vals))

\* bytes.rstrip(b"\x00")
RECURSIVE rstrip0(_)
rstrip0(vals) ==
    IF Len(vals) > 0 /\ vals[Len(vals)] = 0 THEN rstrip0(SubSeq(vals, 1, Len(vals) - 1))
    ELSE vals

\* "".join(CHAR_MAP[v] if v in CHAR_MAP else chr(v) for v in vals)
RECURSIVE ascii_text(_)
ascii_text(vals) ==
    IF Len(vals) = 0 THEN <<>>
    ELSE (IF vals[1] \in DOMAIN CHAR_MAP THEN CHAR_MAP[vals[1]] ELSE <<vals[1]>>)
         \o ascii_text(Tail(vals))

\* bytes(self._read_8(False) for _ in range(n)): [err, val, pos], val the bytes read
RECURSIVE read_bytes(_, _, _)
read_bytes(n, vals, p) ==
    IF n = 0 THEN Read(vals, p)
    ELSE LET r == _read_8(FALSE, p)
         IN  IF r.err # "None" THEN r
             ELSE read_bytes(n - 1, Append(vals, Num(r.val)), r.pos)

\* the ASCII branch of Dumper._dump_array
_dump_array_ascii(array, st) ==
    IF ~(~array.is_list /\ array.items.kind = "Integer" /\ Integer_size(array.items) = 1)
    THEN Raise("AssertionError", st.pos, st.found_ptrs)
    ELSE LET r == read_bytes(array.count, <<>>, st.pos)
         IN  IF r.err # "None" THEN Raise(r.err, r.pos, st.found_ptrs)
             ELSE Return(QUOTE \o ascii_text(rstrip0(r.val)) \o QUOTE,
                         r.pos, st.found_ptrs)

\* index_str going by the format alone: names and indices for ENUM_INDEX only
index_str_by_format(array, i) ==
    IF array.format = "INT_INDEX" \/
       (array.format = "ENUM_INDEX" /\
        (array.enum_def = None \/ i \notin DOMAIN array.enum_def))
    THEN FmtDec(PyInt(i))
    ELSE IF array.format = "ENUM_INDEX"
    THEN array.enum_def[i]
    ELSE None

\* the index string of element i of Dumper._dump_array (None when it has none)
index_str(array, i) ==
    IF array.format = "INT_INDEX" \/
       (array.enum_def # None /\ i \notin DOMAIN array.enum_def)
    THEN FmtDec(PyInt(i))
    ELSE IF array.enum_def # None /\ i \in DOMAIN array.enum_def
    THEN array.enum_def[i]
    ELSE None

RECURSIVE _dump(_, _, _, _), struct_fields(_, _, _, _, _, _), array_items(_, _, _, _, _, _)

\* the loop of _dump_struct with one path list shared by the fields: the name of
\* each field stays on the path of the fields after it
RECURSIVE struct_fields_shared_path(_, _, _, _, _, _)
struct_fields_shared_path(struct, i, lines, depth, parents, st) ==
    LET indent == Indent(depth)
        indent2 == indent \o TAB
    IN  IF i > Len(struct.fields)
        THEN Return(Join(NL, Append(lines, indent \o RBRACE)), st.pos, st.found_ptrs)
        ELSE
            LET name == struct.fields[i][1]
                f_def == struct.fields[i][2]
                r == _dump(f_def, depth + 1, Append(parents, name), st)
                s == indent2 \o DOT \o name \o EQUALS \o r.s
                     \o (IF i < Len(struct.fields) THEN COMMA ELSE <<>>)
            IN  IF r.err # "None" THEN r
                ELSE struct_fields_shared_path(struct, i + 1, Append(lines, s), depth,
                                               Append(parents, name),
                                               [pos |-> r.pos, found_ptrs |-> r.found_ptrs])

\* the loop over struct.fields of Dumper._dump_struct, from field i on (1-based)
struct_fields(struct, i, lines, depth, parents, st) ==
    LET indent == Indent(depth)
        indent2 == indent \o TAB
    IN  IF i > Len(struct.fields)
        THEN Return(Join(NL, Append(lines, indent \o RBRACE)), st.pos, st.found_ptrs)
        ELSE
            LET name == struct.fields[i][1]
                f_def == struct.fields[i][2]
                r == _dump(f_def, depth + 1, Append(parents, name), st)
                s == indent2 \o DOT \o name \o EQUALS \o r.s
                     \o (IF i < Len(struct.fields) THEN COMMA ELSE <<>>)
            IN  IF r.err # "None" THEN r
                ELSE struct_fields(struct, i + 1, Append(lines, s), depth, parents,
                                   [pos |-> r.pos, found_ptrs |-> r.found_ptrs])

\* _dump_struct reading its first field where the cursor is
_dump_struct_unaligned(struct, depth, parents, st) ==
    struct_fields(struct, 1, <<LBRACE>>, depth, parents, st)

_dump_struct(struct, depth, parents, st) ==
    struct_fields(struct, 1, <<LBRACE>>, depth, parents,
                  [st EXCEPT !.pos = _align(4, st.pos)])

\* the loop over range(array.count) of Dumper._dump_array, from index i on (0-based)
array_items(array, i, lines, depth, parents, st) ==
    LET is_single_line == array.format = "SINGLE_LINE"
        indent == Indent(depth)
        indent2 == IF is_single_line THEN <<>> ELSE indent \o TAB
    IN  IF i >= array.count
        THEN LET all == Append(lines, IF is_single_line THEN RBRACE
                                      ELSE indent \o RBRACE)
             IN  Return(IF is_single_line THEN Join(SPACE, all) ELSE Join(NL, all),
                        st.pos, st.found_ptrs)
        ELSE
            LET arr_item == IF array.is_list THEN array.items[i + 1] ELSE array.items
                r == _dump(arr_item, depth + 1, Append(parents, FmtDec(PyInt(i))), st)
                i_str == index_str(array, i)
                s == (IF i_str = None THEN indent2 \o r.s
                      ELSE indent2 \o LBRACKET \o i_str \o RBRACKET_EQUALS \o r.s)
                     \o (IF i < array.count - 1 \/ array.trailing_comma
                         THEN COMMA ELSE <<>>)
            IN  IF r.err # "None" THEN r
                ELSE array_items(array, i + 1, Append(lines, s), depth, parents,
                                 [pos |-> r.pos, found_ptrs |-> r.found_ptrs])

\* _dump_array laying a single-line array out as a multi-line one
_dump_array_multi_line(array, depth, parents, st) ==
    IF array.is_list /\ array.count # Len(array.items)
    THEN Raise("ValueError", st.pos, st.found_ptrs)
    ELSE IF array.format = "ASCII" THEN _dump_array_ascii(array, st)
    ELSE array_items([array EXCEPT !.format = IF @ = "SINGLE_LINE" THEN "MULTI_LINE" ELSE @],
                     0, <<LBRACE>>, depth, parents, st)

_dump_array(array, depth, parents, st) ==
    IF array.is_list /\ array.count # Len(array.items)
    THEN Raise("ValueError", st.pos, st.found_ptrs)
    ELSE IF array.format = "ASCII" THEN _dump_array_ascii(array, st)
    ELSE array_items(array, 0, <<LBRACE>>, depth, parents, st)

_dump(var_def, depth, parents, st) ==
    CASE var_def.kind = "Integer" -> _dump_integer(var_def, st)
      [] var_def.kind = "Boolean" -> _dump_boolean(var_def, st)
      [] var_def.kind = "EnumVal" -> _dump_enumval(var_def, st)
      [] var_def.kind = "Struct" -> _dump_struct(var_def, depth, parents, st)
      [] var_def.kind = "Array" -> _dump_array(var_def, depth, parents, st)
      [] var_def.kind = "Pointer" -> _dump_pointer(var_def, parents, st)

\* dump decoding from where the cursor was left
dump_from_cursor(addr, var_def, name, seek_err) ==
    LET parents == IF name # None /\ name # <<>> THEN <<name>> ELSE <<>>
    IN  _dump(var_def, 0, parents, [pos |-> pos, found_ptrs |-> found_ptrs])

\* what rom.seek raises for a negative offset: io.BytesIO raises ValueError, a
\* file opened in binary mode OSError; the cursor stays where it was
SeekErrors == {"ValueError", "OSError"}

\* Dumper.dump: [err, s, pos, found_ptrs]; seek_err is the exception the stream's
\* seek raises for a negative address, before anything is decoded
dump(addr, var_def, name, seek_err) ==
    LET parents == IF name # None /\ name # <<>> THEN <<name>> ELSE <<>>
    IN  IF addr < 0 THEN Raise(seek_err, pos, found_ptrs)
        ELSE _dump(var_def, 0, parents, [pos |-> addr, found_ptrs |-> found_ptrs])

\* Dumper.__init__ keeping the addresses as they were given
Dumper_syms_as_given(arg) ==
    IF arg = None THEN <<>>
    ELSE [a \in {arg[i][1] : i \in 1..Len(arg)} |->
             arg[CHOOSE i \in 1..Len(arg) : arg[i][1] = a /\ \A j \in (i + 1)..Len(arg) : arg[j][1] # a][2]]

\* the loop of Dumper.__init__ over syms.items(), a sequence of <<addr, name>>
RECURSIVE norm_syms(_, _)
norm_syms(items, acc) ==
    IF Len(items) = 0 THEN acc
    ELSE LET a0 == items[1][1]
             addr == IF a0 < ROM_OFFSET THEN a0 + ROM_OFFSET ELSE a0
             name == items[1][2]
         IN  norm_syms(Tail(items),
                       IF addr \in DOMAIN acc THEN [acc EXCEPT ![addr] = name]
                       ELSE acc @@ (addr :> name))

\* Dumper.__init__: self.syms
Dumper_syms(arg) == IF arg = None THEN <<>> ELSE norm_syms(arg, <<>>)

(***************************************************************************)
(* The engine as a state machine: a Dumper is constructed over an image    *)
(* and a symbol table, then its caller makes dump and read_int calls.      *)
(***************************************************************************)
NoCall ==
    [addr |-> 0, var_def |-> Boolean(1), name |-> None, err |-> "NoCall", s |-> None]

NoSchema == [var_def |-> None, err |-> "NoSchema"]

NoRead == [size |-> 0, signed |-> FALSE, from |-> 0, err |-> "NoRead", val |-> None]

\* how far past the end of the image the cursor of the stream handed over may be
MaxPast == 2

\* Dumper.__init__: the stream is stored as it is handed over, with its cursor
\* wherever the caller left it, in the image or past its end
Construct(roms, sym_args) ==
    /\ rom \in roms
    /\ syms_arg \in sym_args
    /\ syms = Dumper_syms(syms_arg)
    /\ found_ptrs = <<>>
    /\ pos \in 0..(Len(rom) + MaxPast)
    /\ call = NoCall
    /\ prev_ptrs = <<>>
    /\ made = NoSchema
    /\ int_read = NoRead

\* one call of Dumper.dump, returning or raising
Dump(addr, var_def, name) ==
    /\ \E seek_err \in (IF addr < 0 THEN SeekErrors ELSE {"None"}) :
         LET r == dump(addr, var_def, name, seek_err)
         IN  /\ pos' = r.pos
             /\ found_ptrs' = r.found_ptrs
             /\ call' = [addr |-> addr, var_def |-> var_def, name |-> name,
                         err |-> r.err, s |-> r.s]
    /\ prev_ptrs' = found_ptrs
    /\ int_read' = NoRead
    /\ UNCHANGED <<rom, syms, syms_arg, made>>

\* one call of Dumper.read_int by the caller, returning or raising
ReadInt(size, signed) ==
    /\ LET r == read_int(size, signed, pos)
       IN  /\ pos' = r.pos
           /\ int_read' = [size |-> size, signed |-> signed, from |-> pos,
                           err |-> r.err, val |-> r.val]
    /\ UNCHANGED <<rom, syms, found_ptrs, call, prev_ptrs, syms_arg, made>>

\* the caller's dump calls: an address of addrs, a schema of defs, a name of names
DumpAny(addrs, defs, names) ==
    \E addr \in addrs, i \in 1..Len(defs), name \in names :
        Dump(addr, defs[i], name)

\* one construction of a schema, returning or raising
New(var_def, err) == [var_def |-> var_def, err |-> err]

\* Integer(type, base): the dataclass has no __post_init__
NewInteger(type, base) ==
    /\ made' = New(Integer(type, base), "None")
    /\ UNCHANGED <<rom, pos, syms, found_ptrs, call, prev_ptrs, syms_arg, int_read>>

\* Boolean(size)
NewBoolean(size) ==
    /\ made' = New(Boolean(size), Boolean_post_init(Boolean(size)))
    /\ UNCHANGED <<rom, pos, syms, found_ptrs, call, prev_ptrs, syms_arg, int_read>>

\* EnumVal(size, enum_def)
NewEnumVal(size, enum_def) ==
    /\ made' = New(EnumVal(size, enum_def), EnumVal_post_init(EnumVal(size, enum_def)))
    /\ UNCHANGED <<rom, pos, syms, found_ptrs, call, prev_ptrs, syms_arg, int_read>>

\* Array(count, items, format, enum_def, trailing_comma)
NewArray(count, items, is_list, format, enum_def, trailing_comma) ==
    /\ made' = New(Array(count, items, is_list, format, enum_def, trailing_comma),
                   Array_post_init(Array(count, items, is_list, format, enum_def,
                                         trailing_comma)))
    /\ UNCHANGED <<rom, pos, syms, found_ptrs, call, prev_ptrs, syms_arg, int_read>>

\* a dump call with the schema that was constructed last
DumpMade(addr) == made.err = "None" /\ Dump(addr, made.var_def, None)

(***************************************************************************)
(* SpecInt: every Integer schema over every image of RomLen bytes drawn    *)
(* from IntBytes.                                                          *)
(***************************************************************************)
RomLen == 4

\* the addresses the caller dumps at
DumpAddrs == {0, 1}

IntBytes == {0, 1, 127, 128, 255}

IntTypes == <<"U8", "U16", "U32", "S8", "S16", "S32">>

IntDefs ==
    [i \in 1..12 |-> Integer(IntTypes[((i - 1) % 6) + 1], IF i <= 6 THEN "DEC" ELSE "HEX")]

InitInt == Construct([1..RomLen -> IntBytes], {None})

NextInt == DumpAny(DumpAddrs, IntDefs, {None})

SpecInt == InitInt /\ [][NextInt]_vars

(***************************************************************************)
(* Statements about numerals, by reading a numeral back into bytes.        *)
(***************************************************************************)
\* the value of the digit character c in the given base, -1 when it is no digit;
\* the hexadecimal digits above 9 are the capital letters
DigitVal(c, base) ==
    IF c >= 48 /\ c <= 57 THEN c - 48
    ELSE IF base = 16 /\ c >= 65 /\ c <= 70 THEN c - 55
    ELSE -1

IsNumeral(ds, base) ==
    /\ Len(ds) >= 1
    /\ \A i \in 1..Len(ds) : DigitVal(ds[i], base) >= 0
    /\ (Len(ds) > 1 => ds[1] # 48)

\* long division of the digit values vs by 256: <<quotient digits, remainder>>
RECURSIVE DivBy256(_, _, _, _)
DivBy256(vs, base, q, rem) ==
    IF Len(vs) = 0 THEN <<q, rem>>
    ELSE LET cur == rem * base + vs[1]
         IN  DivBy256(Tail(vs), base, Append(q, cur \div 256), cur % 256)

\* the w low bytes, least significant first, of the number with digit values vs,
\* then the digits of what is left above them
RECURSIVE LowBytes(_, _, _, _)
LowBytes(vs, base, w, acc) ==
    IF w = 0 THEN <<acc, vs>>
    ELSE LET d == DivBy256(vs, base, <<>>, 0)
         IN  LowBytes(d[1], base, w - 1, Append(acc, d[2]))

\* the numeral ds denotes the number whose w-byte little-endian form is bs
Denotes(ds, base, bs) ==
    /\ IsNumeral(ds, base)
    /\ LET lb == LowBytes([i \in 1..Len(ds) |-> DigitVal(ds[i], base)], base, Len(bs), <<>>)
       IN  /\ lb[1] = bs
           /\ \A i \in 1..Len(lb[2]) : lb[2][i] = 0

\* the two's complement of the little-endian bytes bs: 2^(8w) - bs
RECURSIVE Negated(_, _)
Negated(bs, carry) ==
    IF Len(bs) = 0 THEN <<>>
    ELSE LET t == (255 - bs[1]) + carry
         IN  <<t % 256>> \o Negated(Tail(bs), t \div 256)

\* the bytes the last call's scalar read took: w bytes from the first multiple of
\* w at or after the call's address
ScalarStart(w) == CHOOSE p \in call.addr..(call.addr + w - 1) : p % w = 0

ScalarBytesRead(w) == SubSeq(rom, ScalarStart(w) + 1, ScalarStart(w) + w)

\* the last call decoded an Integer schema and returned
IntegerReturned == call.err = "None" /\ call.var_def.kind = "Integer"

\* C1: an Integer dump reads the bytes little-endian, as two's complement when the
\* kind is signed; in DEC base the text is the decimal numeral of that value (a
\* minus sign and the numeral of its magnitude when it is negative); in HEX base it
\* is "0x" and the hex numeral of the unsigned bit pattern, the same for the signed
\* and the unsigned kind
C1_IntegerText ==
    IntegerReturned =>
        LET t == call.var_def.type
            w == IF t \in {"U8", "S8"} THEN 1 ELSE IF t \in {"U16", "S16"} THEN 2 ELSE 4
            sgn == t \in {"S8", "S16", "S32"}
            bs == ScalarBytesRead(w)
            negative == sgn /\ bs[w] >= 128
            s == call.s
        IN  /\ Len(bs) = w
            /\ call.var_def.base = "DEC" /\ ~negative => Denotes(s, 10, bs)
            /\ call.var_def.base = "DEC" /\ negative =>
                   /\ Len(s) >= 2 /\ s[1] = 45
                   /\ Denotes(Tail(s), 10, Negated(bs, 1))
            /\ call.var_def.base = "HEX" =>
                   /\ Len(s) >= 3 /\ s[1] = 48 /\ s[2] = 120
                   /\ Denotes(SubSeq(s, 3, Len(s)), 16, bs)

\* a signed 4-byte Integer with its top bit set was dumped in HEX and in DEC
C1_Witness ==
    /\ IntegerReturned
    /\ call.var_def.type = "S32"
    /\ call.var_def.base = "HEX"
    /\ rom = <<255, 255, 255, 255>>
    /\ call.s = Txt(<<"0", "x", "F", "F", "F", "F", "F", "F", "F", "F">>)

(***************************************************************************)
(* SpecScalar: Boolean and EnumVal schemas, alone and nested in a Struct   *)
(* or an Array, over every image of RomLen bytes drawn from ScalarBytes    *)
(* and the two-byte images 0x01 0x02 and 0x01 0x01.                        *)
(***************************************************************************)
ScalarBytes == {0, 1, 2, 255}

ScalarRoms == [1..RomLen -> ScalarBytes] \cup {<<1, 2>>, <<1, 1>>}

EnumNames ==
    (0 :> Txt(<<"Z", "E", "R", "O">>)) @@ (1 :> Txt(<<"O", "N", "E">>)) @@
    (256 :> Txt(<<"W">>))

EnumDefs ==
    <<EnumVal(1, EnumNames), EnumVal(2, EnumNames), EnumVal(4, EnumNames),
      EnumVal(1, <<>>), EnumVal(2, <<>>), EnumVal(4, <<>>)>>

BoolDefs == <<Boolean(1), Boolean(2), Boolean(4)>>

\* Struct[("a", Integer(U8, HEX)), ("b", Boolean(1))]
StructAB ==
    Struct(<< <<Txt(<<"a">>), Integer("U8", "HEX")>>, <<Txt(<<"b">>), Boolean(1)>> >>)

\* Struct[("f", Boolean(2))]
StructF == Struct(<< <<Txt(<<"f">>), Boolean(2)>> >>)

\* Array(2, Boolean(1))
ArrayBool == Array(2, Boolean(1), FALSE, "MULTI_LINE", None, FALSE)

NestedDefs == <<StructAB, StructF, ArrayBool>>

ScalarDefs == EnumDefs \o BoolDefs \o NestedDefs

InitScalar == Construct(ScalarRoms, {None})

NextScalar == DumpAny(DumpAddrs, ScalarDefs, {None})

SpecScalar == InitScalar /\ [][NextScalar]_vars

\* the image holds the w bytes of the last call's scalar read
HasScalarBytes(w) == ScalarStart(w) + w <= Len(rom)

IsZero(bs) == \A i \in 1..Len(bs) : bs[i] = 0

IsOne(bs) == bs[1] = 1 /\ \A i \in 2..Len(bs) : bs[i] = 0

SaysFALSE == Txt(<<"F", "A", "L", "S", "E">>)

SaysTRUE == Txt(<<"T", "R", "U", "E">>)

\* the last call raised the invalid-data error and returned no text
InvalidData == call.err = "ValueError" /\ call.s = None

\* the last call returned the text s
Returned(s) == call.err = "None" /\ call.s = s

\* C2: a Boolean of width 1, 2 or 4 dumps as FALSE when the unsigned value read is
\* 0 and as TRUE when it is 1; every other value raises the invalid-data error and
\* the dump call returns no text, also when the Boolean is a struct field or an
\* array element
C2_BooleanText ==
    /\ call.err # "NoCall" /\ call.var_def.kind = "Boolean" /\ HasScalarBytes(call.var_def.size) =>
           LET bs == ScalarBytesRead(call.var_def.size)
           IN  /\ IsZero(bs) => Returned(SaysFALSE)
               /\ IsOne(bs) => Returned(SaysTRUE)
               /\ ~IsZero(bs) /\ ~IsOne(bs) => InvalidData
    /\ call.err # "NoCall" /\ call.var_def = StructF /\ Len(rom) = RomLen =>
           \* the struct starts at the next multiple of 4, which is 0 or RomLen
           LET bs == SubSeq(rom, 1, 2)
           IN  call.addr = 0 /\ ~IsZero(bs) /\ ~IsOne(bs) => InvalidData
    /\ call.err # "NoCall" /\ call.var_def = ArrayBool /\ Len(rom) = RomLen =>
           LET b0 == rom[call.addr + 1]
               b1 == rom[call.addr + 2]
           IN  b0 > 1 \/ b1 > 1 => InvalidData
    /\ call.err # "NoCall" /\ call.var_def = StructAB /\ call.addr = 0 =>
           (rom[2] > 1 => InvalidData)

\* a 4-byte Boolean of value 2^24 and a Boolean array element of value 2 were refused
C2_Witness ==
    \/ /\ call.var_def = Boolean(4) /\ call.addr = 0 /\ rom = <<0, 0, 0, 1>>
       /\ InvalidData
    \/ /\ call.var_def = ArrayBool /\ call.addr = 1 /\ rom = <<0, 1, 2, 0>>
       /\ InvalidData

\* the little-endian bytes of the key k are bs
KeyIs(k, bs) ==
    /\ k >= 0
    /\ \A i \in 1..Len(bs) : (k \div (256 ^ (i - 1))) % 256 = bs[i]
    /\ k \div (256 ^ (Len(bs) - 1)) < 256

\* C3: an EnumVal dumps as the mapped name when the unsigned value read is a key of
\* its enum-definition, and as the decimal numeral of the value otherwise; it does
\* not raise for an unmapped value
C3_EnumText ==
    call.err # "NoCall" /\ call.var_def.kind = "EnumVal" /\ HasScalarBytes(call.var_def.size) =>
        LET bs == ScalarBytesRead(call.var_def.size)
            enum_def == call.var_def.enum_def
            keys == {k \in DOMAIN enum_def : KeyIs(k, bs)}
        IN  /\ call.err = "None"
            /\ \A k \in keys : call.s = enum_def[k]
            /\ keys = {} => Denotes(call.s, 10, bs)

\* an unmapped 4-byte value above 2^31 gave its numeral, and the key 256 its name
C3_Witness ==
    \/ /\ call.var_def = EnumVal(4, EnumNames) /\ call.addr = 0 /\ rom = <<255, 255, 255, 255>>
       /\ call.s = Txt(<<"4", "2", "9", "4", "9", "6", "7", "2", "9", "5">>)
    \/ /\ call.var_def = EnumVal(2, EnumNames) /\ call.addr = 1 /\ rom = <<0, 0, 0, 1>>
       /\ call.s = Txt(<<"W">>)

\* the text s has the text sub in it
Contains(s, sub) ==
    \E i \in 1..(Len(s) - Len(sub) + 1) : SubSeq(s, i, i + Len(sub) - 1) = sub

SaysA == Txt(<<".", "a", " ", "=", " ", "0", "x", "1">>)

SaysB == Txt(<<".", "b", " ", "=", " ", "T", "R", "U", "E">>)

\* the last call returned a text in braces that has .a = 0x1 and .b = TRUE
StructABText ==
    /\ call.err = "None"
    /\ call.s # None
    /\ Len(call.s) >= 2 /\ call.s[1] = 123 /\ call.s[Len(call.s)] = 125
    /\ Contains(call.s, SaysA)
    /\ Contains(call.s, SaysB)

\* the last call dumped StructAB at address 0 of the image bs
StructABDumped(bs) ==
    call.err # "NoCall" /\ call.var_def = StructAB /\ call.addr = 0 /\ rom = bs

\* C9 as stated: over the image 0x01 0x02 the dump returns the text
C9_Original == StructABDumped(<<1, 2>>) => StructABText

\* C9: dumping Struct[("a", Integer(U8, HEX)), ("b", Boolean(1))] at address 0 of
\* the image 0x01 0x02 raises the invalid-data error and returns no text, the second
\* field's value 2 being neither 0 nor 1; over the image 0x01 0x01 it returns text
\* that begins with "{", ends with "}" and contains ".a = 0x1" and ".b = TRUE"
C9_StructText ==
    /\ StructABDumped(<<1, 2>>) => InvalidData
    /\ StructABDumped(<<1, 1>>) => StructABText

\* both images were dumped
C9_Witness ==
    \/ StructABDumped(<<1, 2>>) /\ call.err = "ValueError"
    \/ StructABDumped(<<1, 1>>) /\ call.err = "None"

(***************************************************************************)
(* SpecPtr: Pointer schemas, alone and as a struct field, over images of   *)
(* NumWords 4-byte words drawn from PtrWords, with and without symbols.    *)
(***************************************************************************)
NumWords == 1

\* 0, 1, 0x7FFFFFF, 0x8000000, 0x8000010, 0x87FFFFF, 0x8800000, 0xFFFFFFFF
PtrWords ==
    {<<0, 0, 0, 0>>, <<1, 0, 0, 0>>, <<255, 255, 255, 7>>, <<0, 0, 0, 8>>, <<16, 0, 0, 8>>,
     <<255, 255, 127, 8>>, <<0, 0, 128, 8>>, <<255, 255, 255, 255>>}

\* the bytes of a sequence of words
RECURSIVE Flatten(_)
Flatten(words) == IF Len(words) = 0 THEN <<>> ELSE words[1] \o Flatten(Tail(words))

PtrRoms == {Flatten(ws) : ws \in [1..NumWords -> PtrWords]}

TypeU8 == Txt(<<"u", "8", "*">>)

NameSym == Txt(<<"S", "y", "m">>)

NameBase == Txt(<<"B", "a", "s", "e">>)

NameOld == Txt(<<"O", "l", "d">>)

RootName == Txt(<<"r">>)

\* {0x10: "Sym", 0x8000000: "Base"} and {0x10: "Old", 0x8000010: "Sym", 0x87FFFFF: "Base"}
PtrSyms ==
    {None,
     << <<16, NameSym>>, <<ROM_OFFSET, NameBase>> >>,
     << <<16, NameOld>>, <<ROM_OFFSET + 16, NameSym>>, <<ROM_OFFSET + ROM_SIZE - 1, NameBase>> >>}

\* Struct[("p", Pointer("u8*"))]
StructP == Struct(<< <<Txt(<<"p">>), Pointer(TypeU8)>> >>)

\* a pointer without a type-cast alone, one with a type-cast as a field
PtrDefs == <<Pointer(None), StructP>>

InitPtr == Construct(PtrRoms, PtrSyms)

NextPtr == DumpAny(DumpAddrs, PtrDefs, {None, RootName})

SpecPtr == InitPtr /\ [][NextPtr]_vars

\* the last call decoded one Pointer, alone or as the field of StructP, and the
\* image holds its 4 bytes
OnePointer ==
    /\ call.err # "NoCall"
    /\ call.var_def \in {Pointer(None), StructP}
    /\ HasScalarBytes(4)

\* the 4-byte value bs is nonzero and below the base offset 0x8000000, or at or
\* above the end of the window 0x8800000
OutOfWindow(bs) ==
    /\ ~IsZero(bs)
    /\ bs[4] < 8 \/ bs[4] > 8 \/ (bs[4] = 8 /\ bs[3] >= 128)

InWindow(bs) == bs[4] = 8 /\ bs[3] < 128

\* the address a 4-byte value in the window stands for
Address(bs) == bs[1] + 256 * bs[2] + 65536 * bs[3] + 16777216 * bs[4]

\* C4: a Pointer whose nonzero value is below the base offset, or at or above the
\* base offset plus the address-space size, raises the invalid-data error and the
\* registry stays as it was; every value from the base offset up to, not including,
\* the end of the window is accepted
C4_PointerWindow ==
    OnePointer =>
        LET bs == ScalarBytesRead(4)
        IN  /\ OutOfWindow(bs) => InvalidData /\ found_ptrs = prev_ptrs
            /\ InWindow(bs) => call.err = "None" /\ Address(bs) \in DOMAIN found_ptrs
            /\ \A v \in DOMAIN found_ptrs : v >= ROM_OFFSET /\ v < ROM_OFFSET + ROM_SIZE

\* the first and the last address of the window were accepted, and the addresses
\* next to them refused
C4_Witness ==
    /\ OnePointer
    /\ \/ rom = <<0, 0, 0, 8>> /\ call.err = "None"
       \/ rom = <<255, 255, 127, 8>> /\ call.err = "None"
       \/ rom = <<0, 0, 128, 8>> /\ call.err = "ValueError"
       \/ rom = <<255, 255, 255, 7>> /\ call.err = "ValueError"

\* the name the symbol table as given maps the absolute address v to, None when it
\* maps none: an address below the base offset counts as that address plus the base
\* offset, and of two entries for one address the later stands
AbsAddr(a) == IF a < ROM_OFFSET THEN a + ROM_OFFSET ELSE a

SymbolOf(v) ==
    IF syms_arg = None \/ \A i \in 1..Len(syms_arg) : AbsAddr(syms_arg[i][1]) # v THEN None
    ELSE LET last == CHOOSE i \in 1..Len(syms_arg) :
                        /\ AbsAddr(syms_arg[i][1]) = v
                        /\ \A j \in (i + 1)..Len(syms_arg) : AbsAddr(syms_arg[j][1]) # v
         IN  syms_arg[last][2]

\* the value of a lower-case hex digit character, -1 when it is none
LowerHexVal(c) ==
    IF c >= 48 /\ c <= 57 THEN c - 48
    ELSE IF c >= 97 /\ c <= 102 THEN c - 87
    ELSE -1

\* the lower-case hex numeral ds, without leading zeros, denotes the address v
RECURSIVE HexValue(_, _)
HexValue(ds, acc) ==
    IF Len(ds) = 0 THEN acc ELSE HexValue(Tail(ds), acc * 16 + LowerHexVal(ds[1]))

IsLowerHexOf(ds, v) ==
    /\ Len(ds) >= 1 /\ Len(ds) <= 7
    /\ \A i \in 1..Len(ds) : LowerHexVal(ds[i]) >= 0
    /\ ds[1] # 48
    /\ HexValue(ds, 0) = v

\* the field path of the one pointer of the last call, the root name first
PathOfOnePointer ==
    (IF call.name = None THEN <<>> ELSE <<call.name>>)
    \o (IF call.var_def = StructP THEN <<Txt(<<"p">>)>> ELSE <<>>)

\* the type-cast of the one pointer of the last call
CastOfOnePointer == IF call.var_def = Pointer(None) THEN None ELSE TypeU8

SaysVoidPtr == Txt(<<"v", "o", "i", "d", "*">>)

\* the text of the one pointer of the last call: all of it, or what follows " = "
\* on the field's line of StructP
OnePointerText ==
    IF call.var_def = StructP
    THEN SubSeq(call.s, 12, Len(call.s) - 2)
    ELSE call.s

\* C6: a nonzero pointer value in the window that is a key of the normalized symbol
\* table (an address given below the base offset counting as that address plus the
\* base offset) renders as the symbol name, which is its description; any other is
\* rendered "(<type-cast>)0x<hex>", with void* for a missing type-cast, and the
\* type-cast text or void* is its description
C6_PointerText ==
    OnePointer /\ InWindow(ScalarBytesRead(4)) =>
        LET v == Address(ScalarBytesRead(4))
            name == SymbolOf(v)
            tc == IF CastOfOnePointer = None THEN SaysVoidPtr ELSE CastOfOnePointer
            desc == IF name # None THEN name ELSE tc
            text == OnePointerText
        IN  /\ call.err = "None"
            /\ name # None => text = name
            /\ name = None =>
                   /\ SubSeq(text, 1, Len(tc) + 4) = Txt(<<"(">>) \o tc \o Txt(<<")", "0", "x">>)
                   /\ IsLowerHexOf(SubSeq(text, Len(tc) + 5, Len(text)), v)
            /\ Join(Txt(<<",">>), Append(PathOfOnePointer, desc)) \in found_ptrs[v]

\* a rebased symbol was rendered by name, and an unmapped address as a cast
\* expression with the default type-cast
C6_Witness ==
    /\ OnePointer
    /\ \/ /\ rom = <<16, 0, 0, 8>> /\ syms_arg # None
          /\ syms_arg[1] = <<16, NameSym>>
          /\ call.s = NameSym
       \/ /\ rom = <<255, 255, 127, 8>> /\ syms_arg = None /\ call.var_def = Pointer(None)
          /\ call.s = Txt(<<"(", "v", "o", "i", "d", "*", ")", "0", "x",
                            "8", "7", "f", "f", "f", "f", "f">>)

(***************************************************************************)
(* Spec: schemas of one and of two pointers dumped again and again over    *)
(* three images of two and three words, so that the registry accumulates   *)
(* every set of descriptions the calls can leave.                          *)
(***************************************************************************)
\* 0x8000010, 0x87FFFFF, 0x8800000 (the first address past the window)
AddrA == ROM_OFFSET + 16

AddrB == ROM_OFFSET + ROM_SIZE - 1

AddrX == ROM_OFFSET + ROM_SIZE

\* the words of the images
ImageWords == {<<AddrA, AddrA>>, <<AddrB, AddrX>>, <<0, 0, AddrB>>}

\* the 4 bytes of a word, least significant first
WordBytes(n) == <<n % 256, (n \div 256) % 256, (n \div 65536) % 256, n \div 16777216>>

Image(ws) == Flatten([i \in 1..Len(ws) |-> WordBytes(ws[i])])

\* Struct[("a", Pointer("u8*")), ("b", Pointer("u8*"))]
StructPP ==
    Struct(<< <<Txt(<<"a">>), Pointer(TypeU8)>>, <<Txt(<<"b">>), Pointer(TypeU8)>> >>)

\* Struct[("a", Pointer("u8*")), ("a", Pointer("u8*"))]
StructDup ==
    Struct(<< <<Txt(<<"a">>), Pointer(TypeU8)>>, <<Txt(<<"a">>), Pointer(TypeU8)>> >>)

\* Array(2, Pointer())
ArrayP == Array(2, Pointer(None), FALSE, "MULTI_LINE", None, FALSE)

Defs == <<Pointer(TypeU8), StructPP, StructDup, ArrayP>>

\* {0x87FFFFF: "Sym"}
Syms == {None, << <<AddrB, NameSym>> >>}

WordAddrs == {0, 8}

Init == Construct({Image(ws) : ws \in ImageWords}, Syms)

Next == DumpAny(WordAddrs, Defs, {None, RootName})

Spec == Init /\ [][Next]_vars

\* the words of the image
RECURSIVE WordsOf(_)
WordsOf(bs) ==
    IF Len(bs) < 4 THEN <<>>
    ELSE <<bs[1] + 256 * bs[2] + 65536 * bs[3] + 16777216 * bs[4]>>
         \o WordsOf(SubSeq(bs, 5, Len(bs)))

\* the pointer fields of a schema of Defs, in the order they are decoded: the path
\* segments below the root and the type-cast of each
FieldsOf(var_def) ==
    CASE var_def = Pointer(TypeU8) -> <<[path |-> <<>>, cast |-> TypeU8]>>
      [] var_def = StructPP -> <<[path |-> <<Txt(<<"a">>)>>, cast |-> TypeU8],
                                 [path |-> <<Txt(<<"b">>)>>, cast |-> TypeU8]>>
      [] var_def = StructDup -> <<[path |-> <<Txt(<<"a">>)>>, cast |-> TypeU8],
                                  [path |-> <<Txt(<<"a">>)>>, cast |-> TypeU8]>>
      [] var_def = ArrayP -> <<[path |-> <<Txt(<<"0">>)>>, cast |-> SaysVoidPtr],
                               [path |-> <<Txt(<<"1">>)>>, cast |-> SaysVoidPtr]>>

\* the word field k of the last call reads (-1 past the end of the image):
\* the fields are 4 bytes each, from the call's address on
FieldWord(k) ==
    LET ws == WordsOf(rom)
        i == (call.addr \div 4) + k
    IN  IF i <= Len(ws) THEN ws[i] ELSE -1

ValidWord(w) == w = 0 \/ (w >= ROM_OFFSET /\ w < ROM_OFFSET + ROM_SIZE)

\* field k of the last call was decoded: no field before it failed, nor did it
FieldDecoded(k) == \A j \in 1..k : ValidWord(FieldWord(j))

\* the description of field k of the last call
FieldDesc(k) ==
    LET f == FieldsOf(call.var_def)[k]
        name == SymbolOf(FieldWord(k))
    IN  Join(Txt(<<",">>),
             (IF call.name = None THEN <<>> ELSE <<call.name>>)
             \o f.path \o <<IF name # None THEN name ELSE f.cast>>)

\* the (address, description) pairs of the nonzero pointer fields the last call
\* decoded before it ended
PairsOfCall ==
    {<<FieldWord(k), FieldDesc(k)>> :
        k \in {j \in 1..Len(FieldsOf(call.var_def)) : FieldDecoded(j) /\ FieldWord(j) # 0}}

\* a registry as a set of (address, description) pairs
PairsOf(ptrs) == UNION {{<<v, d>> : d \in ptrs[v]} : v \in DOMAIN ptrs}

SaysNULL == Txt(<<"N", "U", "L", "L">>)

\* every pointer field of the last call read the value 0
AllNull ==
    /\ call.err # "NoCall"
    /\ \A k \in 1..Len(FieldsOf(call.var_def)) : FieldWord(k) = 0

\* C5: a Pointer whose value is 0 dumps as NULL and the registry stays as it was:
\* no key is added and no description is added to a key, whatever the type-cast,
\* the symbol table and the field path
C5_NullPointer ==
    AllNull =>
        /\ call.err = "None"
        /\ found_ptrs = prev_ptrs
        /\ 0 \notin DOMAIN found_ptrs
        /\ call.var_def = Pointer(TypeU8) => call.s = SaysNULL
        /\ call.var_def # Pointer(TypeU8) =>
               /\ Contains(call.s, SaysNULL \o Txt(<<",">>))
               /\ SubSeq(call.s, Len(call.s) - 5, Len(call.s) - 2) = SaysNULL

\* null pointers were dumped, alone and as two fields, by an engine whose registry
\* held a pointer already
C5_Witness ==
    /\ AllNull
    /\ prev_ptrs # <<>>
    /\ call.name = RootName
    /\ call.var_def \in {Pointer(TypeU8), ArrayP}

\* C7: the registry is empty at construction; after each dump call, returned or
\* failed, it is the registry before the call and one (address, description) pair
\* for every nonzero pointer field decoded before the call ended: no pair is
\* removed, a failing call keeps the pairs recorded before the failing field and
\* adds none for the fields after it
C7_RegistryGrows ==
    /\ call.err = "NoCall" => found_ptrs = <<>>
    /\ call.err # "NoCall" =>
           /\ PairsOf(found_ptrs) = PairsOf(prev_ptrs) \cup PairsOfCall
           /\ DOMAIN prev_ptrs \subseteq DOMAIN found_ptrs
           /\ \A v \in DOMAIN found_ptrs : found_ptrs[v] # {}
           /\ call.err = "None" <=>
                  \A k \in 1..Len(FieldsOf(call.var_def)) : FieldDecoded(k)

\* a call that decoded a first pointer and failed at the second added the first to
\* a registry that held a description of the same address
C7_Witness ==
    /\ call.err = "ValueError"
    /\ call.var_def = StructPP
    /\ AddrB \in DOMAIN prev_ptrs
    /\ Cardinality(found_ptrs[AddrB]) = 2
    /\ Cardinality(prev_ptrs[AddrB]) = 1

\* the last call decoded two pointers of the same type-cast that both hold the
\* address v, which has no symbol and was not in the registry
TwoPointersTo(v) ==
    /\ call.err = "None"
    /\ Len(FieldsOf(call.var_def)) = 2
    /\ FieldWord(1) = v /\ FieldWord(2) = v
    /\ v # 0
    /\ SymbolOf(v) = None
    /\ v \notin DOMAIN prev_ptrs

SamePath == FieldsOf(call.var_def)[1].path = FieldsOf(call.var_def)[2].path

\* C8 as stated: two pointers to the same unmapped address with the same type-cast
\* leave one description, whatever their field paths
C8_Original ==
    \A v \in {AddrA, AddrB} :
        TwoPointersTo(v) => v \in DOMAIN found_ptrs /\ Cardinality(found_ptrs[v]) = 1

\* C8: two pointers to the same unmapped address in the window with the same
\* type-cast yield one registry entry for that address; its description set has
\* exactly one member when the two field paths are the same text, and two members
\* when the field paths differ, each description being the field path joined with
\* the type-cast
C8_DescriptionSet ==
    \A v \in {AddrA, AddrB} :
        TwoPointersTo(v) =>
            /\ v \in DOMAIN found_ptrs
            /\ SamePath => Cardinality(found_ptrs[v]) = 1
            /\ ~SamePath => Cardinality(found_ptrs[v]) = 2

\* both cases happened: two fields of one name, and two fields of different names
C8_Witness ==
    /\ TwoPointersTo(AddrA)
    /\ \/ call.var_def = StructDup /\ Cardinality(found_ptrs[AddrA]) = 1
       \/ call.var_def = StructPP /\ Cardinality(found_ptrs[AddrA]) = 2

(***************************************************************************)
(* SpecAscii: ASCII arrays over every image of RomLen bytes drawn from     *)
(* AsciiBytes, and over the image "Test" NUL.                              *)
(***************************************************************************)
\* NUL, tab, line feed, carriage return, "T", and 0xE9
AsciiBytes == {0, 9, 10, 13, 84, 233}

\* "Test\0"
TestImage == <<84, 101, 115, 116, 0>>

AsciiRoms == [1..RomLen -> AsciiBytes] \cup {TestImage}

AsciiArray(count, type) == Array(count, Integer(type, "DEC"), FALSE, "ASCII", None, FALSE)

AsciiDefs == <<AsciiArray(RomLen - 1, "U8"), AsciiArray(RomLen, "S8"), AsciiArray(5, "S8")>>

InitAscii == Construct(AsciiRoms, {None})

NextAscii == DumpAny(DumpAddrs, AsciiDefs, {None})

SpecAscii == InitAscii /\ [][NextAscii]_vars

\* the last call dumped an ASCII array and the image holds its count bytes
AsciiDumped ==
    /\ call.err # "NoCall"
    /\ call.var_def.kind = "Array"
    /\ call.var_def.format = "ASCII"
    /\ call.addr + call.var_def.count <= Len(rom)

\* how one byte of an ASCII array is rendered
Rendered(b) ==
    CASE b = 0 -> Txt(<<"\\", "0">>)
      [] b = 9 -> Txt(<<"\\", "t">>)
      [] b = 10 -> Txt(<<"\\", "n">>)
      [] b = 13 -> Txt(<<"\\", "r">>)
      [] OTHER -> <<b>>

\* the renderings of bytes from..to of the image, in order
RECURSIVE RenderedRun(_, _)
RenderedRun(from, to) ==
    IF from > to THEN <<>> ELSE Rendered(rom[from]) \o RenderedRun(from + 1, to)

\* C10: an ASCII array of count n reads n bytes as unsigned values, for a signed
\* element kind too, drops the zero bytes at its end and no other, renders the bytes
\* that remain in order (0x00 as \0, 0x09 as \t, 0x0A as \n, 0x0D as \r, any other
\* as its character) and puts the result in double quotes without braces; an array
\* of zero bytes gives the empty quoted string
C10_AsciiText ==
    AsciiDumped =>
        LET first == call.addr + 1
            last == call.addr + call.var_def.count
            nonzero == {i \in first..last : rom[i] # 0}
            end == IF nonzero = {} THEN first - 1
                   ELSE CHOOSE i \in nonzero : \A j \in nonzero : j <= i
        IN  /\ call.err = "None"
            /\ call.s = <<34>> \o RenderedRun(first, end) \o <<34>>
            /\ pos = last

\* a zero byte before a byte above 0x7F of a signed array was kept, the zero bytes
\* after it dropped; and the image "Test" NUL was dumped
C10_Witness ==
    /\ AsciiDumped
    /\ \/ /\ rom = <<84, 0, 233, 0>> /\ call.addr = 0 /\ call.var_def = AsciiArray(RomLen, "S8")
          /\ call.s = <<34, 84, 92, 48, 233, 34>>
       \/ /\ rom = TestImage /\ call.addr = 0 /\ call.var_def = AsciiArray(5, "S8")
          /\ call.s = Txt(<<"\"", "T", "e", "s", "t", "\"">>)

(***************************************************************************)
(* SpecArr: non-ASCII arrays of 1-byte elements, alone and nested, over    *)
(* every image of RomLen bytes drawn from ArrBytes and the image           *)
(* 0x01 0x02 0x03.                                                         *)
(***************************************************************************)
ArrBytes == {1, 2, 3}

ArrRoms == [1..RomLen -> ArrBytes] \cup {<<1, 2, 3>>}

U8Dec == Integer("U8", "DEC")

U8Hex == Integer("U8", "HEX")

\* Array(3, Integer(U8), SINGLE_LINE)
Line3 == Array(3, U8Dec, FALSE, "SINGLE_LINE", None, FALSE)

\* Array(3, Integer(U8), SINGLE_LINE, trailing_comma=True)
Line3T == Array(3, U8Dec, FALSE, "SINGLE_LINE", None, TRUE)

\* Array(1, Integer(U8), SINGLE_LINE) and the same with a trailing comma
Line1 == Array(1, U8Dec, FALSE, "SINGLE_LINE", None, FALSE)

Line1T == Array(1, U8Dec, FALSE, "SINGLE_LINE", None, TRUE)

\* Array(2, [Integer(U8, HEX), Boolean(1)], SINGLE_LINE)
LineList == Array(2, <<U8Hex, Boolean(1)>>, TRUE, "SINGLE_LINE", None, FALSE)

\* Array(2, Integer(U8), SINGLE_LINE, trailing_comma=True)
Line2T == Array(2, U8Dec, FALSE, "SINGLE_LINE", None, TRUE)

\* Struct[("v", Line3)]: a single-line array one level deep
StructLine == Struct(<< <<Txt(<<"v">>), Line3>> >>)

\* Struct[("v", Array(1, Line2T))]: a single-line array two levels deep
StructDeep ==
    Struct(<< <<Txt(<<"v">>), Array(1, Line2T, FALSE, "MULTI_LINE", None, FALSE)>> >>)

LineDefs == <<Line3, Line3T, Line1, Line1T, LineList, StructLine, StructDeep>>

\* the text of a 1-byte element of the given schema that reads the byte b < 10
ElemText(item, b) ==
    CASE item.kind = "Integer" /\ item.base = "DEC" -> <<48 + b>>
      [] item.kind = "Integer" /\ item.base = "HEX" -> <<48, 120, 48 + b>>
      [] item.kind = "Boolean" -> IF b = 0 THEN SaysFALSE ELSE SaysTRUE

\* the schema of element i: the shared schema, or entry i of the explicit list
ItemOf(array, i) == IF array.is_list THEN array.items[i + 1] ELSE array.items

\* the image holds the bytes of the 1-byte elements of the array at address a, and
\* those of its Boolean elements are 0 or 1
Decodable(array, a) ==
    /\ a + array.count <= Len(rom)
    /\ \A i \in 0..(array.count - 1) :
           ItemOf(array, i).kind = "Boolean" => rom[a + i + 1] <= 1

\* a space and element i, with its comma, for every element from i on
RECURSIVE ElementsFrom(_, _, _)
ElementsFrom(array, a, i) ==
    IF i >= array.count THEN <<>>
    ELSE <<32>> \o ElemText(ItemOf(array, i), rom[a + i + 1])
         \o (IF i < array.count - 1 \/ array.trailing_comma THEN <<44>> ELSE <<>>)
         \o ElementsFrom(array, a, i + 1)

\* "{", the elements and "}" with one space between each two
OneLineText(array, a) == <<123>> \o ElementsFrom(array, a, 0) \o <<32, 125>>

\* the text has no line feed and no two spaces in a row
OnOneLine(s) ==
    /\ \A i \in 1..Len(s) : s[i] # 10
    /\ \A i \in 1..(Len(s) - 1) : ~(s[i] = 32 /\ s[i + 1] = 32)

SaysFieldV == Txt(<<"{">>) \o <<10>> \o Txt(<<" ", " ", " ", " ", ".", "v", " ", "=", " ">>)

SaysDeepOpen == Txt(<<"{">>) \o <<10>> \o Txt(<<" ", " ", " ", " ", " ", " ", " ", " ">>)

SaysDeepClose == <<10>> \o Txt(<<" ", " ", " ", " ", "}">>) \o <<10>> \o Txt(<<"}">>)

\* the last call dumped a single-line array, alone or nested, whose elements the
\* image holds
LineDumped ==
    /\ call.err # "NoCall"
    /\ \/ /\ call.var_def.kind = "Array" /\ call.var_def.format = "SINGLE_LINE"
          /\ Decodable(call.var_def, call.addr)
       \/ call.var_def = StructLine /\ call.addr = 0 /\ Decodable(Line3, 0)
       \/ call.var_def = StructDeep /\ call.addr = 0 /\ Decodable(Line2T, 0)

\* C11: a single-line Array dumps as "{", each element followed by a comma except
\* the last (the last too when the trailing-comma flag is set), and "}", joined by
\* single spaces on one line: no line feed and no indentation, also when the array
\* is nested one or two levels deep; count 3 of Integer(U8) over 0x01 0x02 0x03
\* gives "{ 1, 2, 3 }"
C11_SingleLine ==
    LineDumped =>
        /\ call.err = "None"
        /\ call.var_def.kind = "Array" =>
               /\ call.s = OneLineText(call.var_def, call.addr)
               /\ OnOneLine(call.s)
        /\ call.var_def = StructLine =>
               call.s = SaysFieldV \o OneLineText(Line3, 0) \o <<10, 125>>
        /\ call.var_def = StructDeep =>
               call.s = SaysFieldV \o SaysDeepOpen \o OneLineText(Line2T, 0) \o SaysDeepClose
        /\ rom = <<1, 2, 3>> /\ call.var_def = Line3 =>
               call.s = Txt(<<"{", " ", "1", ",", " ", "2", ",", " ", "3", " ", "}">>)

\* the scenario's array was dumped over 0x01 0x02 0x03, and one with a trailing
\* comma two levels deep
C11_Witness ==
    /\ LineDumped
    /\ \/ rom = <<1, 2, 3>> /\ call.var_def = Line3 /\ call.addr = 0
       \/ /\ call.var_def = StructDeep /\ Len(call.s) = 38
          /\ SubSeq(call.s, 22, 30) = Txt(<<"{", " ", "1", ",", " ", "2", ",", " ", "}">>)

\* {0: "A", 2: "C"}
EnumAC == (0 :> Txt(<<"A">>)) @@ (2 :> Txt(<<"C">>))

\* arrays of count 3 in each multi-line format, without an index enum-definition,
\* with {0: "A", 2: "C"} and with the empty one
Multi3 == Array(3, U8Dec, FALSE, "MULTI_LINE", None, FALSE)

Int3 == Array(3, U8Dec, FALSE, "INT_INDEX", None, TRUE)

Enum3 == Array(3, U8Dec, FALSE, "ENUM_INDEX", None, FALSE)

Multi3AC == Array(3, U8Dec, FALSE, "MULTI_LINE", EnumAC, FALSE)

Enum3AC == Array(3, U8Dec, FALSE, "ENUM_INDEX", EnumAC, TRUE)

Enum3Empty == Array(3, U8Dec, FALSE, "ENUM_INDEX", <<>>, FALSE)

\* Array(2, [Integer(U8, HEX), Integer(U8)], INT_INDEX)
IntList == Array(2, <<U8Hex, U8Dec>>, TRUE, "INT_INDEX", None, FALSE)

\* Array(2, [Integer(U8), Integer(U8, HEX)], MULTI_LINE, {0: "A", 2: "C"})
MultiListAC == Array(2, <<U8Dec, U8Hex>>, TRUE, "MULTI_LINE", EnumAC, FALSE)

IndexDefs == <<Multi3, Int3, Enum3, Multi3AC, Enum3AC, Enum3Empty, IntList, MultiListAC>>

ArrDefs == LineDefs \o IndexDefs

InitArr == Construct(ArrRoms, {None})

NextArr == DumpAny(DumpAddrs, ArrDefs, {None})

SpecArr == InitArr /\ [][NextArr]_vars

\* the last call dumped an array in a multi-line format whose elements the image
\* holds
IndexedDumped ==
    /\ call.err # "NoCall"
    /\ call.var_def.kind = "Array"
    /\ call.var_def.format \in {"MULTI_LINE", "INT_INDEX", "ENUM_INDEX"}
    /\ Decodable(call.var_def, call.addr)

\* the decimal numeral of an index below 10, in brackets before " = "
SaysIndex(i) == <<91, 48 + i>> \o Txt(<<"]", " ", "=", " ">>)

SaysName(name) == <<91>> \o name \o Txt(<<"]", " ", "=", " ">>)

\* the prefix of element i
PrefixOf(array, i) ==
    LET given == array.enum_def # None
    IN  IF array.format = "INT_INDEX" \/ (given /\ i \notin DOMAIN array.enum_def)
        THEN SaysIndex(i)
        ELSE IF given /\ i \in DOMAIN array.enum_def
        THEN SaysName(array.enum_def[i])
        ELSE <<>>

\* a line feed and the line of element i, for every element from i on: one level
\* of indentation, the prefix, the element, its comma
RECURSIVE LinesFrom(_, _, _)
LinesFrom(array, a, i) ==
    IF i >= array.count THEN <<>>
    ELSE <<10, 32, 32, 32, 32>> \o PrefixOf(array, i)
         \o ElemText(ItemOf(array, i), rom[a + i + 1])
         \o (IF i < array.count - 1 \/ array.trailing_comma THEN <<44>> ELSE <<>>)
         \o LinesFrom(array, a, i + 1)

\* C18: element i of a non-ASCII Array is decoded in index order with the shared
\* schema or entry i of the explicit list; its prefix is "[i] = " with the decimal
\* index when the format is INT_INDEX or an index enum-definition is present and
\* does not contain i, "[NAME] = " with the mapped name when an index
\* enum-definition is present and contains i (for MULTI_LINE as for ENUM_INDEX),
\* and nothing otherwise, as for ENUM_INDEX without an enum-definition
C18_IndexPrefix ==
    /\ IndexedDumped =>
           /\ call.err = "None"
           /\ call.s = <<123>> \o LinesFrom(call.var_def, call.addr, 0) \o <<10, 125>>
           /\ call.var_def \in {Multi3, Enum3} => \A i \in 1..Len(call.s) : call.s[i] # 91
    /\ rom = <<1, 2, 3>> /\ call.addr = 0 /\ call.var_def \in {Multi3AC, Multi3, Enum3Empty} =>
           call.s = <<123, 10>>
                    \o Txt(<<" ", " ", " ", " ">>)
                    \o (CASE call.var_def = Multi3AC -> Txt(<<"[", "A", "]", " ", "=", " ">>)
                          [] call.var_def = Multi3 -> <<>>
                          [] call.var_def = Enum3Empty -> Txt(<<"[", "0", "]", " ", "=", " ">>))
                    \o Txt(<<"1", ",">>) \o <<10>>
                    \o Txt(<<" ", " ", " ", " ">>)
                    \o (IF call.var_def = Multi3 THEN <<>>
                        ELSE Txt(<<"[", "1", "]", " ", "=", " ">>))
                    \o Txt(<<"2", ",">>) \o <<10>>
                    \o Txt(<<" ", " ", " ", " ">>)
                    \o (CASE call.var_def = Multi3AC -> Txt(<<"[", "C", "]", " ", "=", " ">>)
                          [] call.var_def = Multi3 -> <<>>
                          [] call.var_def = Enum3Empty -> Txt(<<"[", "2", "]", " ", "=", " ">>))
                    \o Txt(<<"3">>) \o <<10, 125>>
    /\ LineDumped /\ call.var_def.kind = "Array" =>
           \A i \in 1..Len(call.s) : call.s[i] # 91

\* a MULTI_LINE array with an enum-definition named elements 0 and 2 and numbered
\* element 1; an ENUM_INDEX array without one gave no prefix; an explicit list gave
\* each entry its own rendering
C18_Witness ==
    /\ IndexedDumped
    /\ rom = <<1, 2, 3>> /\ call.addr = 0
    /\ \/ /\ call.var_def = Multi3AC /\ Len(call.s) = 41
          /\ SubSeq(call.s, 7, 14) = Txt(<<"[", "A", "]", " ", "=", " ", "1", ",">>)
       \/ /\ call.var_def = Enum3 /\ Len(call.s) = 23
          /\ SubSeq(call.s, 7, 8) = Txt(<<"1", ",">>)
       \/ /\ call.var_def = IntList
          /\ SubSeq(call.s, 7, 16) = Txt(<<"[", "0", "]", " ", "=", " ", "0", "x", "1", ",">>)

(***************************************************************************)
(* SpecLayout: scalars of every width, structs, arrays of structs and an   *)
(* ASCII array dumped at the addresses 0..3 and 8 of images of 12 bytes,    *)
(* dumps at a negative address and at one past the end, and read_int calls *)
(* of the caller in between, so that reads start off their alignment and   *)
(* from cursors that earlier operations left.                              *)
(***************************************************************************)
\* bytes that tell their position; Booleans behind nonzero padding; a text with
\* zero bytes at its end; 16-bit values below 10 behind padding of 9
LayoutRoms ==
    {<<1, 2, 3, 4, 5, 6, 7, 8, 9, 0, 1, 2>>,
     <<7, 1, 0, 0, 1, 0, 0, 0, 0, 0, 1, 0>>,
     <<9, 9, 9, 9, 0, 0, 0, 0, 84, 0, 0, 0>>,
     <<1, 9, 2, 0, 3, 9, 4, 0, 5, 0, 0, 0>>}

LayoutAddrs == {0, 1, 2, 3, 8}

LayoutScalars ==
    <<U8Dec, Integer("U16", "DEC"), Integer("S32", "DEC"), Integer("S16", "DEC"),
      Boolean(1), Boolean(2), Boolean(4), EnumVal(1, <<>>), EnumVal(2, <<>>), EnumVal(4, <<>>),
      Pointer(None)>>

\* Struct[("x", Integer(U8)), ("y", Integer(U8))]
StructBytes == Struct(<< <<Txt(<<"x">>), U8Dec>>, <<Txt(<<"y">>), U8Dec>> >>)

\* Struct[("x", Integer(U8)), ("h", Integer(U16)), ("y", Integer(U8))]
StructMixed ==
    Struct(<< <<Txt(<<"x">>), U8Dec>>, <<Txt(<<"h">>), Integer("U16", "DEC")>>,
              <<Txt(<<"y">>), U8Dec>> >>)

\* Struct[("y", Integer(U8))]
StructY == Struct(<< <<Txt(<<"y">>), U8Dec>> >>)

\* Struct[("x", Integer(U8)), ("n", StructY)]
StructNest == Struct(<< <<Txt(<<"x">>), U8Dec>>, <<Txt(<<"n">>), StructY>> >>)

\* Array(2, StructY)
ArrStructs == Array(2, StructY, FALSE, "MULTI_LINE", None, FALSE)

LayoutDefs ==
    LayoutScalars
    \o <<StructBytes, StructMixed, StructNest, ArrStructs, Multi3, AsciiArray(4, "U8")>>

InitLayout == Construct(LayoutRoms, {None})

\* the sizes the caller passes to read_int: the three widths and one that is none
ReadSizes == {1, 2, 3, 4}

\* an address the stream cannot seek to and one past the end of the image
EdgeAddrs == {-1, 13}

EdgeDefs == <<U8Dec, StructBytes>>

NextLayout ==
    \/ DumpAny(LayoutAddrs, LayoutDefs, {None})
    \/ DumpAny(EdgeAddrs, EdgeDefs, {None})
    \/ \E size \in ReadSizes, signed \in BOOLEAN : ReadInt(size, signed)

SpecLayout == InitLayout /\ [][NextLayout]_vars

\* the first multiple of w at or after p
RoundUp(p, w) == CHOOSE q \in p..(p + w - 1) : q % w = 0

\* the width of a scalar schema
WidthOf(var_def) ==
    CASE var_def.kind = "Integer" ->
             (IF var_def.type \in {"U8", "S8"} THEN 1
              ELSE IF var_def.type \in {"U16", "S16"} THEN 2 ELSE 4)
      [] var_def.kind \in {"Boolean", "EnumVal"} -> var_def.size
      [] var_def.kind = "Pointer" -> 4

IsScalar(var_def) == var_def.kind \in {"Integer", "Boolean", "EnumVal", "Pointer"}

\* where decoding a schema that starts at p ends: a scalar takes its width from the
\* first multiple of its width, a struct its fields one after another from the first
\* multiple of 4, an array its elements one after another, an ASCII array its count
RECURSIVE EndOf(_, _), EndOfFields(_, _, _), EndOfItems(_, _, _)
EndOf(var_def, p) ==
    CASE IsScalar(var_def) -> RoundUp(p, WidthOf(var_def)) + WidthOf(var_def)
      [] var_def.kind = "Struct" -> EndOfFields(var_def.fields, 1, RoundUp(p, 4))
      [] var_def.kind = "Array" /\ var_def.format = "ASCII" -> p + var_def.count
      [] var_def.kind = "Array" /\ var_def.format # "ASCII" -> EndOfItems(var_def, 0, p)

EndOfFields(fields, i, p) ==
    IF i > Len(fields) THEN p ELSE EndOfFields(fields, i + 1, EndOf(fields[i][2], p))

EndOfItems(array, i, p) ==
    IF i >= array.count THEN p ELSE EndOfItems(array, i + 1, EndOf(ItemOf(array, i), p))

SaysT == Txt(<<"\"", "T", "\"">>)

\* the caller made no read_int call since the last dump call: the cursor is where
\* the dump call left it
NoReadSince == int_read.err = "NoRead"

\* the last dump call, made at an address the stream can seek to, failed while
\* decoding, and the cursor is where it left it
FailedDecoding ==
    call.err \notin {"NoCall", "None"} /\ call.addr >= 0 /\ NoReadSince

\* the last dump call was made at a negative address
SeekRefused == call.err # "NoCall" /\ call.addr < 0

\* where the last dump call left the cursor and the registry
CursorAfterCall ==
    /\ call.err = "None" /\ NoReadSince =>
           /\ call.addr >= 0
           /\ pos = EndOf(call.var_def, call.addr)
           /\ call.var_def = U8Dec => Denotes(call.s, 10, <<rom[call.addr + 1]>>)
           /\ call.var_def = AsciiArray(4, "U8") /\ call.addr = 8 /\ rom[9] = 84 =>
                  call.s = SaysT /\ pos = 12
    /\ FailedDecoding =>
           /\ pos >= call.addr
           /\ pos <= EndOf(call.var_def, call.addr)
    /\ SeekRefused =>
           /\ call.err \in SeekErrors
           /\ call.s = None
           /\ found_ptrs = prev_ptrs

\* C12: a dump call decodes from its address, whatever cursor the construction and
\* earlier calls left: when it returns, the cursor is the address plus the bytes
\* read plus the padding skipped for alignment, and the text is that of the bytes
\* there; an ASCII array moves the cursor by its full count, also when zero bytes
\* at its end are dropped from the text; a call that fails while decoding leaves
\* the cursor between its address and that end; a call at an address the stream
\* refuses to seek to raises the stream's error and decodes nothing: the cursor
\* and the registry stay as they were
C12_Cursor ==
    /\ []CursorAfterCall
    /\ [][SeekRefused' /\ NoReadSince' => pos' = pos /\ found_ptrs' = found_ptrs]_vars

\* a call at address 0 returned with the cursor at 1 after an earlier call had read
\* the pointer at 4 and left the cursor at 8; an ASCII array of count 4 that ends in
\* three zero bytes left the cursor 4 further; a call at address -1 raised with the
\* cursor left at 8; a struct at address 13, past the end, failed at 16
C12_Witness ==
    /\ NoReadSince
    /\ \/ /\ call.err = "None" /\ call.var_def = U8Dec /\ call.addr = 0 /\ pos = 1
          /\ prev_ptrs # <<>>
       \/ /\ call.err = "None" /\ call.var_def = AsciiArray(4, "U8") /\ call.addr = 8
          /\ call.s = SaysT /\ pos = 12
       \/ /\ SeekRefused /\ call.err = "OSError" /\ pos = 8 /\ found_ptrs # <<>>
       \/ /\ FailedDecoding /\ call.addr = 13 /\ call.var_def = StructBytes
          /\ call.err = "IndexError" /\ pos = 16

\* the last call sought to its address and decoded one scalar, and the cursor is
\* where it left it
ScalarCall ==
    /\ call.err # "NoCall" /\ call.addr >= 0
    /\ IsScalar(call.var_def) /\ NoReadSince

\* the caller's last operation was a read_int of one of the three widths
IntRead == int_read.err # "NoRead" /\ int_read.size \in {1, 2, 4}

\* the number the bytes bs hold, least significant first, as the pair of its upper
\* and lower 16 bits
ValueOf(bs) ==
    <<(IF Len(bs) = 4 THEN bs[3] + 256 * bs[4] ELSE 0),
      bs[1] + (IF Len(bs) >= 2 THEN 256 * bs[2] ELSE 0)>>

\* the last call returned the decimal numeral of the value of the bytes bs, read as
\* two's complement when sgn
ReturnedDecimal(bs, sgn) ==
    /\ call.err = "None"
    /\ IF sgn /\ bs[Len(bs)] >= 128
       THEN /\ Len(call.s) >= 2 /\ call.s[1] = 45
            /\ Denotes(Tail(call.s), 10, Negated(bs, 1))
       ELSE Denotes(call.s, 10, bs)

\* the last call returned the cast expression of the address the bytes bs hold
ReturnedAddress(bs) ==
    /\ call.err = "None"
    /\ SubSeq(call.s, 1, 9) = Txt(<<"(", "v", "o", "i", "d", "*", ")", "0", "x">>)
    /\ IsLowerHexOf(SubSeq(call.s, 10, Len(call.s)), Address(bs))

SaysOpenX == <<123, 10>> \o Txt(<<" ", " ", " ", " ", ".", "x", " ", "=", " ">>)

SaysFieldH == <<44, 10>> \o Txt(<<" ", " ", " ", " ", ".", "h", " ", "=", " ">>)

SaysFieldY == <<44, 10>> \o Txt(<<" ", " ", " ", " ", ".", "y", " ", "=", " ">>)

\* the last call dumped StructMixed at an address the stream sought to, and the
\* image holds its 5 bytes from the first multiple of 4 on
MixedDumped ==
    /\ call.err # "NoCall" /\ call.addr >= 0
    /\ call.var_def = StructMixed /\ NoReadSince
    /\ RoundUp(call.addr, 4) + 5 <= Len(rom)

\* C16: a read of a 2-byte or 4-byte scalar (Integer, Boolean, EnumVal, Pointer)
\* starts at the first multiple of its width at or after the cursor: the value is
\* that of the bytes there, the bytes skipped are not read into it, and the cursor
\* ends just past them, never before where it was; a 1-byte read starts where the
\* cursor is; this holds for a field read after another field and for a read_int
\* call of the caller from wherever the cursor was
C16_Alignment ==
    /\ IntRead =>
           LET w == int_read.size
               start == RoundUp(int_read.from, w)
               bs == SubSeq(rom, start + 1, start + w)
           IN  /\ w = 1 => start = int_read.from
               /\ pos >= int_read.from
               /\ start + w <= Len(rom) =>
                      /\ int_read.err = "None"
                      /\ pos = start + w
                      /\ ~int_read.signed \/ bs[w] < 128 => int_read.val = ValueOf(bs)
    /\ ScalarCall =>
           LET w == WidthOf(call.var_def)
               start == ScalarStart(w)
               bs == ScalarBytesRead(w)
               kind == call.var_def.kind
           IN  /\ w = 1 => start = call.addr
               /\ start >= call.addr /\ start < call.addr + w /\ start % w = 0
               /\ start + w <= Len(rom) =>
                      /\ pos = start + w
                      /\ kind = "Integer" =>
                             ReturnedDecimal(bs, call.var_def.type \in {"S8", "S16", "S32"})
                      /\ kind = "EnumVal" => ReturnedDecimal(bs, FALSE)
                      /\ kind = "Boolean" =>
                             /\ IsZero(bs) => Returned(SaysFALSE)
                             /\ IsOne(bs) => Returned(SaysTRUE)
                             /\ ~IsZero(bs) /\ ~IsOne(bs) => InvalidData
                      /\ kind = "Pointer" =>
                             /\ IsZero(bs) => Returned(SaysNULL)
                             /\ InWindow(bs) => ReturnedAddress(bs)
                             /\ OutOfWindow(bs) => InvalidData
    /\ MixedDumped =>
           LET start == RoundUp(call.addr, 4)
           IN  /\ call.err = "None"
               /\ pos = start + 5
               /\ rom[start + 1] < 10 /\ rom[start + 5] < 10 =>
                      /\ SubSeq(call.s, 1, 23) = SaysOpenX \o <<48 + rom[start + 1]>> \o SaysFieldH
                      /\ Denotes(SubSeq(call.s, 24, Len(call.s) - 14), 10,
                                 <<rom[start + 3], rom[start + 4]>>)
                      /\ SubSeq(call.s, Len(call.s) - 13, Len(call.s))
                             = SaysFieldY \o <<48 + rom[start + 5], 10, 125>>

\* after a dump of one byte at 0, read_int(2) read 1027 from the bytes at 2 and left
\* the cursor at 4; a 4-byte Boolean at address 1 behind the padding 1 0 0 gave
\* TRUE and left the cursor at 8; a pointer at address 3 was read from 4; a 2-byte
\* field behind a 1-byte field and the padding 9 gave 2
C16_Witness ==
    \/ /\ IntRead /\ int_read.size = 2 /\ int_read.from = 1 /\ pos = 4
       /\ call.err = "None" /\ call.var_def = U8Dec /\ call.addr = 0
       /\ int_read.val = <<0, 1027>>
    \/ /\ ScalarCall /\ call.var_def = Boolean(4) /\ call.addr = 1
       /\ rom[2] = 1 /\ call.s = SaysTRUE /\ pos = 8
    \/ /\ ScalarCall /\ call.var_def = Pointer(None) /\ call.addr = 3
       /\ call.err = "None" /\ pos = 8
       /\ found_ptrs # <<>>
    \/ /\ MixedDumped /\ call.addr = 0 /\ rom[2] = 9
       /\ SubSeq(call.s, 24, Len(call.s) - 14) = Txt(<<"2">>)

SaysOpen == <<123, 10>> \o Txt(<<" ", " ", " ", " ">>)

SaysOpenY == <<123, 10>> \o Txt(<<" ", " ", " ", " ", " ", " ", " ", " ", ".", "y", " ", "=", " ">>)

SaysClose == <<10>> \o Txt(<<" ", " ", " ", " ", "}">>)

SaysFieldN == <<44, 10>> \o Txt(<<" ", " ", " ", " ", ".", "n", " ", "=", " ">>)

\* the text of StructY one level deep whose field reads the byte b < 10
StructYText(b) == SaysOpenY \o <<48 + b>> \o SaysClose

\* the last call dumped the schema at an address the stream sought to, and the
\* image holds n bytes from the first multiple of 4 at or after its address on
StructDumped(var_def, n) ==
    /\ call.err # "NoCall" /\ call.addr >= 0
    /\ call.var_def = var_def /\ NoReadSince
    /\ RoundUp(call.addr, 4) + n <= Len(rom)

\* C17: a Struct is decoded from the first multiple of 4 at or after the cursor,
\* whatever its fields (1-byte fields too), as is a Struct that is a field and each
\* Struct of an array of Structs; its fields are decoded in the order they are
\* declared, and the cursor ends just past the last field, without padding
C17_StructAlignment ==
    /\ StructDumped(StructBytes, 2) =>
           LET start == RoundUp(call.addr, 4)
           IN  /\ call.err = "None"
               /\ pos = start + 2
               /\ rom[start + 1] < 10 /\ rom[start + 2] < 10 =>
                      call.s = SaysOpenX \o <<48 + rom[start + 1]>>
                               \o SaysFieldY \o <<48 + rom[start + 2], 10, 125>>
    /\ StructDumped(StructMixed, 5) => call.err = "None" /\ pos = RoundUp(call.addr, 4) + 5
    /\ StructDumped(StructNest, 5) =>
           LET start == RoundUp(call.addr, 4)
           IN  /\ call.err = "None"
               /\ pos = start + 5
               /\ rom[start + 1] < 10 /\ rom[start + 5] < 10 =>
                      call.s = SaysOpenX \o <<48 + rom[start + 1]>> \o SaysFieldN
                               \o StructYText(rom[start + 5]) \o <<10, 125>>
    /\ StructDumped(ArrStructs, 5) =>
           LET start == RoundUp(call.addr, 4)
           IN  /\ call.err = "None"
               /\ pos = start + 5
               /\ rom[start + 1] < 10 /\ rom[start + 5] < 10 =>
                      call.s = SaysOpen \o StructYText(rom[start + 1]) \o <<44, 10>>
                               \o Txt(<<" ", " ", " ", " ">>) \o StructYText(rom[start + 5])
                               \o <<10, 125>>

\* an array of two 1-byte Structs dumped at address 1 read the bytes at 4 and 8 and
\* left the cursor at 9; a Struct of two 1-byte fields at address 3 read 4 and 5
C17_Witness ==
    \/ /\ StructDumped(ArrStructs, 5) /\ call.addr = 1 /\ pos = 9
       /\ rom[5] = 5 /\ rom[9] = 9
       /\ Len(call.s) = 58
    \/ /\ StructDumped(StructBytes, 2) /\ call.addr = 3 /\ pos = 6
       /\ rom[5] = 5 /\ rom[6] = 6


(***************************************************************************)
(* SpecMake: Integer, Boolean and EnumVal schemas of every width from -1   *)
(* to MaxWidth are constructed, and those that construct are dumped over   *)
(* every image of RomLen bytes drawn from 0 and 1.                         *)
(***************************************************************************)
MaxWidth == 5

Widths == (-1)..MaxWidth

MakeRoms == [1..RomLen -> {0, 1}]

MakeEnumDefs == <<EnumNames, <<>> >>

InitMake == Construct(MakeRoms, {None})

NextMake ==
    \/ \E i \in 1..Len(IntTypes), base \in {"DEC", "HEX"} : NewInteger(IntTypes[i], base)
    \/ \E size \in Widths : NewBoolean(size)
    \/ \E size \in Widths, i \in 1..Len(MakeEnumDefs) : NewEnumVal(size, MakeEnumDefs[i])
    \/ \E addr \in DumpAddrs : DumpMade(addr)

SpecMake == InitMake /\ [][NextMake]_vars

\* the last construction returned
Constructed == made.err = "None"

\* the last construction raised the structural-schema error
Refused == made.err = "ValueError"

\* C14: a Boolean or an EnumVal constructs exactly when its width is 1, 2 or 4 and
\* raises ValueError for every other width; an Integer always constructs; so the
\* size a dump of a constructed Integer, Boolean or EnumVal reads with is 1, 2 or 4,
\* and the dump raises ValueError only for a Boolean whose value is neither 0 nor 1
C14_ScalarWidth ==
    /\ made.err # "NoSchema" /\ made.var_def.kind \in {"Boolean", "EnumVal"} =>
           /\ made.var_def.size \in {1, 2, 4} => Constructed
           /\ made.var_def.size \notin {1, 2, 4} => Refused
    /\ made.err # "NoSchema" /\ made.var_def.kind = "Integer" => Constructed
    /\ call.err # "NoCall" =>
           /\ WidthOf(call.var_def) \in {1, 2, 4}
           /\ call.err \in {"None", "IndexError", "ValueError"}
           /\ call.err = "ValueError" =>
                  /\ call.var_def.kind = "Boolean"
                  /\ HasScalarBytes(call.var_def.size)
                  /\ ~IsZero(ScalarBytesRead(call.var_def.size))
                  /\ ~IsOne(ScalarBytesRead(call.var_def.size))

\* an EnumVal of width 3 was refused after a Boolean of width 4 had been
\* constructed and dumped
C14_Witness ==
    /\ made.var_def = EnumVal(3, <<>>) /\ Refused
    /\ call.var_def = Boolean(4) /\ call.err = "None"

(***************************************************************************)
(* SpecArray: Arrays of every count from -1 to MaxCount are constructed    *)
(* with each of ArrayItems, every format, with and without an index        *)
(* enum-definition and a trailing comma.                                   *)
(***************************************************************************)
MaxCount == 2

Counts == (-1)..MaxCount

\* one shared schema (<<items, FALSE>>) or an explicit list (<<items, TRUE>>)
ArrayItems ==
    << <<U8Dec, FALSE>>, <<Integer("S8", "HEX"), FALSE>>, <<Integer("U16", "DEC"), FALSE>>,
       <<Boolean(1), FALSE>>, <<Pointer(None), FALSE>>, <<StructY, FALSE>>, <<Line1, FALSE>>,
       << <<>>, TRUE>>, << <<U8Dec>>, TRUE>>, << <<U8Dec, Integer("S8", "DEC")>>, TRUE>>,
       << <<U8Dec, StructY>>, TRUE>>, << <<Line1, U8Dec>>, TRUE>>,
       << <<Integer("U16", "DEC"), Pointer(None)>>, TRUE>> >>

ArrFormats == {"SINGLE_LINE", "MULTI_LINE", "INT_INDEX", "ENUM_INDEX", "ASCII"}

\* no enum-definition, the empty one, {0: "A", 2: "C"}
ArrayEnumDefs == <<None, <<>>, EnumAC>>

InitArray == Construct({<<>>}, {None})

NextArray ==
    \E count \in Counts, i \in 1..Len(ArrayItems), format \in ArrFormats,
       e \in 1..Len(ArrayEnumDefs), trailing_comma \in BOOLEAN :
        NewArray(count, ArrayItems[i][1], ArrayItems[i][2], format, ArrayEnumDefs[e],
                 trailing_comma)

SpecArray == InitArray /\ [][NextArray]_vars

\* an Array construction was tried last
ArrayTried == made.err # "NoSchema" /\ made.var_def.kind = "Array"

CountNotPositive(a) == a.count <= 0

LengthDiffers(a) == a.is_list /\ Len(a.items) # a.count

EnumDefWithOtherFormat(a) == a.enum_def # None /\ a.format \notin {"MULTI_LINE", "ENUM_INDEX"}

Nested(v) == v.kind = "Struct" \/ v.kind = "Array"

SingleLineOfNested(a) ==
    /\ a.format = "SINGLE_LINE"
    /\ IF a.is_list THEN \E i \in 1..Len(a.items) : Nested(a.items[i]) ELSE Nested(a.items)

OneByteInteger(v) == v.kind = "Integer" /\ v.type \in {"U8", "S8"}

AsciiOfOther(a) == a.format = "ASCII" /\ (a.is_list \/ ~OneByteInteger(a.items))

\* C13: an Array construction raises ValueError exactly when the count is not
\* positive, or items is an explicit list of another length than count, or an index
\* enum-definition is given and the format is not MULTI_LINE or ENUM_INDEX, or the
\* format is SINGLE_LINE and the shared schema or an entry of the list is a Struct
\* or an Array, or the format is ASCII and items is not one Integer schema of width
\* 1 (a list of 1-byte Integers is refused too); every other combination constructs
C13_ArrayConstruction ==
    ArrayTried =>
        LET a == made.var_def
            bad == \/ CountNotPositive(a)
                   \/ LengthDiffers(a)
                   \/ EnumDefWithOtherFormat(a)
                   \/ SingleLineOfNested(a)
                   \/ AsciiOfOther(a)
        IN  /\ bad => Refused
            /\ ~bad => Constructed

\* an ASCII array of a list of one 1-byte Integer was refused, as was a
\* single-line array whose list has a Struct behind an Integer; an ENUM_INDEX
\* array with the empty enum-definition was constructed
C13_Witness ==
    /\ ArrayTried
    /\ \/ /\ made.var_def.is_list
          /\ made.var_def = Array(1, <<U8Dec>>, TRUE, "ASCII", None, FALSE)
          /\ Refused
       \/ /\ made.var_def.is_list
          /\ made.var_def = Array(2, <<U8Dec, StructY>>, TRUE, "SINGLE_LINE", None, FALSE)
          /\ Refused
       \/ /\ ~made.var_def.is_list
          /\ made.var_def = Array(2, U8Dec, FALSE, "ENUM_INDEX", <<>>, TRUE)
          /\ Constructed

(***************************************************************************)
(* SpecPath: pointers nested in structs and arrays, dumped with no root    *)
(* name, the empty one and "r", over three images of four words.           *)
(***************************************************************************)
PathWords ==
    {<<AddrA, AddrB, AddrA, 0>>, <<AddrB, AddrA, AddrX, AddrA>>, <<0, AddrA, AddrA, AddrB>>}

\* Struct[("a", Array(2, Pointer("u8*"))), ("b", Pointer())]
StructArr ==
    Struct(<< <<Txt(<<"a">>), Array(2, Pointer(TypeU8), FALSE, "MULTI_LINE", None, FALSE)>>,
              <<Txt(<<"b">>), Pointer(None)>> >>)

\* Array(2, Struct[("p", Pointer()), ("q", Pointer("u8*"))])
ArrStruct ==
    Array(2, Struct(<< <<Txt(<<"p">>), Pointer(None)>>, <<Txt(<<"q">>), Pointer(TypeU8)>> >>),
          FALSE, "MULTI_LINE", None, FALSE)

\* Struct[("s", Struct[("t", Array(1, Pointer()))])]
StructST ==
    Struct(<< <<Txt(<<"s">>),
               Struct(<< <<Txt(<<"t">>),
                          Array(1, Pointer(None), FALSE, "INT_INDEX", None, FALSE)>> >>)>> >>)

PathDefs == <<Pointer(TypeU8), StructArr, ArrStruct, StructST>>

\* no root name, the empty name, "r"
PathNames == {None, <<>>, RootName}

PathAddrs == {0}

InitPath == Construct({Image(ws) : ws \in PathWords}, Syms)

NextPath == DumpAny(PathAddrs, PathDefs, PathNames)

SpecPath == InitPath /\ [][NextPath]_vars

\* the pointers of a schema in the order they are decoded, each with the names of
\* the struct fields and the decimal indices of the array elements that enclose
\* it, outermost first, and its type-cast
RECURSIVE PathsOf(_, _), PathsOfFields(_, _, _), PathsOfItems(_, _, _)
PathsOf(var_def, prefix) ==
    CASE var_def.kind = "Pointer" ->
             <<[path |-> prefix,
                cast |-> IF var_def.type_cast = None THEN SaysVoidPtr ELSE var_def.type_cast]>>
      [] var_def.kind = "Struct" -> PathsOfFields(var_def.fields, 1, prefix)
      [] var_def.kind = "Array" -> PathsOfItems(var_def, 0, prefix)
      [] OTHER -> <<>>

PathsOfFields(fields, i, prefix) ==
    IF i > Len(fields) THEN <<>>
    ELSE PathsOf(fields[i][2], Append(prefix, fields[i][1]))
         \o PathsOfFields(fields, i + 1, prefix)

PathsOfItems(array, i, prefix) ==
    IF i >= array.count THEN <<>>
    ELSE PathsOf(ItemOf(array, i), Append(prefix, <<48 + i>>))
         \o PathsOfItems(array, i + 1, prefix)

\* the root segment of the last call: its name when one was given and is not empty
RootOfCall == IF call.name = None \/ call.name = <<>> THEN <<>> ELSE <<call.name>>

\* the description of pointer k of the last call: root, path, then the symbol
\* name or the type-cast
PathDesc(k) ==
    LET f == PathsOf(call.var_def, <<>>)[k]
        name == SymbolOf(FieldWord(k))
    IN  Join(Txt(<<",">>), RootOfCall \o f.path \o <<IF name # None THEN name ELSE f.cast>>)

\* the (address, description) pairs of the nonzero pointers the last call decoded
PathPairsOfCall ==
    {<<FieldWord(k), PathDesc(k)>> :
        k \in {j \in 1..Len(PathsOf(call.var_def, <<>>)) : FieldDecoded(j) /\ FieldWord(j) # 0}}

SaysR1Q == Txt(<<"r", ",", "1", ",", "q", ",", "u", "8", "*">>)

SaysAB == Txt(<<"a", ",", "1", ",", "S", "y", "m">>)

\* C15: the description recorded for a nonzero pointer in the window is the
\* comma-join of the root name (when given and not empty), the names of the
\* enclosing struct fields and the decimal indices of the enclosing array
\* elements from outermost to innermost, and the pointer's own description (symbol
\* name, type-cast or void*); the registry after a call is the registry before it
\* and these descriptions, so none carries a segment of a sibling field, of an
\* earlier element or of an earlier pointer or call
C15_FieldPath ==
    call.err # "NoCall" =>
        /\ PairsOf(found_ptrs) = PairsOf(prev_ptrs) \cup PathPairsOfCall
        /\ \A v \in DOMAIN found_ptrs : \A d \in found_ptrs[v] : Len(d) > 0 /\ d[1] # 44

\* the second field of the second element of an array of structs was recorded
\* under the root name "r" as "r,1,q,u8*" after an earlier call had recorded a
\* pointer; a symbol in the second element of an array field as "a,1,Sym" under
\* the empty root name
C15_Witness ==
    /\ call.err = "None"
    /\ \/ /\ call.var_def = ArrStruct /\ call.name = RootName
          /\ prev_ptrs # <<>>
          /\ AddrB \in DOMAIN found_ptrs /\ SaysR1Q \in found_ptrs[AddrB]
       \/ /\ call.var_def = StructArr /\ call.name = <<>>
          /\ AddrB \in DOMAIN found_ptrs /\ SaysAB \in found_ptrs[AddrB]


====
